---- MODULE Spec2Model ----
(***************************************************************************)
(* A state-machine model of morgul's core: the script engine               *)
(* (PythonExecutor), the tool-loop agent (AgentHandler), the REPL agent    *)
(* (REPLAgent) and the self-healing act pipeline (ActHandler).             *)
(*                                                                         *)
(* Each component has its own variables, initial predicate, actions and    *)
(* specification; a component's specification leaves the variables of the  *)
(* other components unchanged.                                             *)
(***************************************************************************)
EXTENDS Integers, Sequences, FiniteSets, TLC

VARIABLES
    \* ---- script engine (executor.py) ----
    namespace,      \* PythonExecutor.namespace: name -> value (Absent when unbound)
    scaffold,       \* PythonExecutor._scaffold: name -> value (NotScaffold when no entry)
    selThread,      \* process.selected_thread as the debugger reports it now
    exLast,         \* the last engine operation: the name it touched and how it ended
    exCount,        \* number of engine operations performed (bounded by MaxExecOps)
    \* ---- tool-loop agent (agent/handler.py) ----
    agMessages,     \* run_stream's local `messages`
    agPc,           \* where run_stream is: "top", "tools" or "returned"
    agStepNum,      \* step_num of the for loop
    agResponse,     \* response.tool_calls of the current step
    agIdx,          \* index of the next tool call of the response to execute
    agToolResults,  \* tool_results of the current step
    agDone,         \* the local `done` of the current step
    agSteps,        \* self.steps: the steps yielded so far
    agModelCalls,   \* number of self.llm.chat calls made
    agElapsed,      \* time.monotonic() - start_time
    \* ---- act pipeline (primitives/act.py) ----
    actCfg,         \* ActHandler's configuration: cache, self_heal, max_retries
    actPc,          \* where act is: idle, translate, execute, heal, ..., returned, raised
    actCache,       \* the cache's storage: key -> stored result (NoEntry when none)
    actCtx,         \* the context text the context builder renders for the process now
    actCall,        \* locals of the running call: instruction, key, first result, attempt
    actLog,         \* what the running call did so far, in order
    actResult,      \* the ActResult the last call returned (NoResult when none)
    actCalls,       \* number of act calls started
    \* ---- REPL agent (agent/repl.py) ----
    rpPc,           \* where run is: top, chat, blocks, exec, feedback, returned, raised
    rpStep,         \* step of the for loop
    rpMessages,     \* run's local `messages`
    rpBlocksLeft,   \* code blocks of the current response not yet executed
    rpDone,         \* self._done
    rpResult,       \* self._result
    rpCalls,        \* self._llm_query_calls_this_iteration
    rpStarted,      \* sub-query chat calls started on the loop in this iteration
    rpMainCalls,    \* main self.llm.chat calls made by run
    rpCompactCalls, \* summarisation chat calls made by _compact_history
    rpExecuted,     \* self._code_blocks_executed
    rpRet,          \* the REPLResult run returned (NoRet while running)
    rpParts,        \* results_text_parts: whether each part has a stderr section
    rpFeedback,     \* what the feedback message just appended shows
    wk,             \* the worker thread: state, script steps made, how its last block ended
    fut,            \* the future of the current sub-query: state, size, timeout, waited
    \* ---- translate engine (translate/engine.py) ----
    teCfg,          \* the engine's configuration: whether a cache is set
    teCache,        \* the stored entries of its cache, by key
    teLast,         \* the latest translate_extract / translate_observe call
    tePrev,         \* the call before it
    teCount,        \* number of calls made
    \* ---- context builder (context/builder.py) ----
    pbSnap,         \* the snapshot being pruned: what `pruned` holds
    pbBudget,       \* self.max_tokens
    pbPc,           \* where _prune is: the next reduction step, or returned
    pbTrace,        \* the estimate before and after each reduction applied
    \* ---- session lifecycle (session.py, bridge/debugger.py) ----
    seSb,           \* debugger._sb: the live SBDebugger, or none after destroy
    seTarget,       \* whether self._target is set
    seProcess,      \* self._process: none or a process
    seHandlers,     \* which primitive handlers the session holds
    seLast,         \* the latest operation on the session or its debugger
    seCount,        \* number of operations made
    \* ---- breakpoints (bridge/breakpoint.py, bridge/target.py) ----
    bkState,        \* each breakpoint of the target: none, live or deleted
    bkBody,         \* the registry key named by the breakpoint's script callback body
    bkFacade,       \* the breakpoint each Breakpoint object wraps
    bkRegistry,     \* the keys of _BP_CALLBACKS
    \* ---- instrumented model client (llm/events.py) ----
    icLog,          \* what the callback received and the provider calls, in order
    icPc,           \* idle, or provider while the provider call is awaited
    icMethod,       \* the method of the call in progress
    icCalls,        \* number of calls begun
    icOutcome,      \* what each finished call gave its caller
    \* ---- variable expansion (bridge/frame.py) ----
    veStack,        \* the calls of _to_variable in progress, outermost first
    veBuilt,        \* number of Variable objects returned
    veDeepest,      \* the largest _depth of a call so far
    \* ---- REPL agent across runs (core/agent/repl.py) ----
    pnPersistent,   \* self.persistent
    pnHistory,      \* self._message_history
    pnMessages,     \* the messages of the run in progress
    pnPc,           \* where run() is: "idle", "top", "chat"
    pnStep,         \* step of the for loop
    pnDone,         \* self._done
    pnResult,       \* self._result
    pnRun,          \* number of run() calls so far
    pnFirst,        \* the first model call of the run: its kind and messages
    pnBefore,       \* the messages the latest compaction test looked at
    pnTopCalls,     \* model calls made by the latest compaction test
    \* ---- agent tools (core/agent/handler.py) ----
    txCalls,        \* names of response.tool_calls
    txIdx,          \* index of the next tool call
    txResults,      \* tool_results
    txPc,           \* "tools", "appended", "raised"
    \* ---- script engine on the bridge (primitives/executor.py, bridge/process.py) ----
    rfSel,          \* SBProcess.GetSelectedThread() of the process
    rfNamespace,    \* self.namespace of an executor built on a bridge Process
    rfScaffold,     \* its self._scaffold
    rfBefore,       \* namespace and scaffold before the latest call
    rfLast,         \* the latest call and how it (or its refresh) ended
    rfCount,        \* number of calls so far
    \* ---- cache storage (core/cache/storage.py) ----
    fsFile,         \* the file of the key in the cache directory
    fsLast,         \* the latest cached primitive call and how it ended
    fsCount,        \* number of cached primitive calls so far
    \* ---- DONE inside a block (core/agent/repl.py) ----
    dnNest,         \* the try statements around the block's DONE call
    dnText,         \* the argument of DONE
    dnPc,           \* "running", "raising", "ended", "failed"
    dnLevel,        \* the try statement the signal has reached
    dnCalled,       \* the block has called DONE
    dnDone,         \* self._done
    dnResult,       \* self._result
    \* ---- Cache keys (core/primitives/act.py, core/translate/engine.py) ----
    kcPc,           \* "empty", "stored", "looked"
    kcStored,       \* the call whose result is in the cache
    kcKey,          \* the key of the stored entry
    kcLast          \* the later call and whether it hit

exVars == <<namespace, scaffold, selThread, exLast, exCount>>
agVars == <<agMessages, agPc, agStepNum, agResponse, agIdx, agToolResults, agDone,
            agSteps, agModelCalls, agElapsed>>

actVars == <<actCfg, actPc, actCache, actCtx, actCall, actLog, actResult, actCalls>>

rpVars == <<rpPc, rpStep, rpMessages, rpBlocksLeft, rpDone, rpResult, rpCalls,
            rpStarted, rpMainCalls, rpCompactCalls, rpExecuted, rpRet, rpParts, rpFeedback, wk, fut>>

teVars == <<teCfg, teCache, teLast, tePrev, teCount>>

pbVars == <<pbSnap, pbBudget, pbPc, pbTrace>>

seVars == <<seSb, seTarget, seProcess, seHandlers, seLast, seCount>>

bkVars == <<bkState, bkBody, bkFacade, bkRegistry>>

icVars == <<icLog, icPc, icMethod, icCalls, icOutcome>>

veVars == <<veStack, veBuilt, veDeepest>>

pnVars == <<pnPersistent, pnHistory, pnMessages, pnPc, pnStep, pnDone, pnResult, pnRun, pnFirst,
            pnBefore, pnTopCalls>>

txVars == <<txCalls, txIdx, txResults, txPc>>

rfVars == <<rfSel, rfNamespace, rfScaffold, rfBefore, rfLast, rfCount>>

fsVars == <<fsFile, fsLast, fsCount>>

dnVars == <<dnNest, dnText, dnPc, dnLevel, dnCalled, dnDone, dnResult>>

kcVars == <<kcPc, kcStored, kcKey, kcLast>>

vars == <<exVars, agVars, actVars, rpVars, teVars, pbVars, seVars, bkVars, icVars, veVars, pnVars, txVars, rfVars, fsVars, dnVars, kcVars>>

\* What each component's actions leave unchanged: the other components.
exOthers == <<agVars, actVars, rpVars, teVars, pbVars, seVars, bkVars, icVars, veVars, pnVars, txVars, rfVars, fsVars, dnVars, kcVars>>
agOthers == <<exVars, actVars, rpVars, teVars, pbVars, seVars, bkVars, icVars, veVars, pnVars, txVars, rfVars, fsVars, dnVars, kcVars>>
actOthers == <<exVars, agVars, rpVars, teVars, pbVars, seVars, bkVars, icVars, veVars, pnVars, txVars, rfVars, fsVars, dnVars, kcVars>>
rpOthers == <<exVars, agVars, actVars, teVars, pbVars, seVars, bkVars, icVars, veVars, pnVars, txVars, rfVars, fsVars, dnVars, kcVars>>
teOthers == <<exVars, agVars, actVars, rpVars, pbVars, seVars, bkVars, icVars, veVars, pnVars, txVars, rfVars, fsVars, dnVars, kcVars>>
pbOthers == <<exVars, agVars, actVars, rpVars, teVars, seVars, bkVars, icVars, veVars, pnVars, txVars, rfVars, fsVars, dnVars, kcVars>>
seOthers == <<exVars, agVars, actVars, rpVars, teVars, pbVars, bkVars, icVars, veVars, pnVars, txVars, rfVars, fsVars, dnVars, kcVars>>
bkOthers == <<exVars, agVars, actVars, rpVars, teVars, pbVars, seVars, icVars, veVars, pnVars, txVars, rfVars, fsVars, dnVars, kcVars>>
icOthers == <<exVars, agVars, actVars, rpVars, teVars, pbVars, seVars, bkVars, veVars, pnVars, txVars, rfVars, fsVars, dnVars, kcVars>>
veOthers == <<exVars, agVars, actVars, rpVars, teVars, pbVars, seVars, bkVars, icVars, pnVars, txVars, rfVars, fsVars, dnVars, kcVars>>
pnOthers == <<exVars, agVars, actVars, rpVars, teVars, pbVars, seVars, bkVars, icVars, veVars, txVars, rfVars, fsVars, dnVars, kcVars>>
txOthers == <<exVars, agVars, actVars, rpVars, teVars, pbVars, seVars, bkVars, icVars, veVars, pnVars, rfVars, fsVars, dnVars, kcVars>>
rfOthers == <<exVars, agVars, actVars, rpVars, teVars, pbVars, seVars, bkVars, icVars, veVars, pnVars, txVars, fsVars, dnVars, kcVars>>
fsOthers == <<exVars, agVars, actVars, rpVars, teVars, pbVars, seVars, bkVars, icVars, veVars, pnVars, txVars, rfVars, dnVars, kcVars>>
dnOthers == <<exVars, agVars, actVars, rpVars, teVars, pbVars, seVars, bkVars, icVars, veVars, pnVars, txVars, rfVars, fsVars, kcVars>>
kcOthers == <<exVars, agVars, actVars, rpVars, teVars, pbVars, seVars, bkVars, icVars, veVars, pnVars, txVars, rfVars, fsVars, dnVars>>

(***************************************************************************)
(* Script engine: PythonExecutor                                           *)
(***************************************************************************)

\* The names of the namespace that the model tracks: three seed names of
\* RESERVED_NAMES, the REPL's DONE and a user variable.
Names == {"process", "thread", "frame", "DONE", "x"}

\* RESERVED_NAMES (executor.py:30-45), restricted to Names.
RESERVED_NAMES == {"process", "thread", "frame"}

Absent == "<absent>"
NotScaffold == "<none>"

\* Threads the process may have selected; "None" is Python's None.
ThreadVals == {"T1", "None"}

\* thread.selected_frame of a thread (None has no frame; "T0", the bridge's
\* wrapper of an invalid SBThread, gives the wrapper of an invalid SBFrame).
SelectedFrame(t) == IF t = "T1" THEN "F1" ELSE IF t = "T0" THEN "F0" ELSE "None"

\* Values a caller may register with update_scaffold.
UserVals == {"u1", "u2"}

\* What a fragment may do to a name: rebind it to a value of its own, or delete it.
FragmentVals == {"junk", Absent}

\* How a fragment ends: normally, by an exception derived from Exception, or by
\* a BaseException that is not an Exception (KeyboardInterrupt, SystemExit,
\* GeneratorExit; reachable from a fragment as Exception.__base__).
Outcomes == {"ok", "Exception", "BaseException"}

\* How refresh()'s reads of the debugger end: both succeed, reading
\* process.selected_thread raises, or reading thread.selected_frame raises.
RefreshOutcomes == {"ok", "failThread", "failFrame"}

\* Bound on the number of engine operations in one behaviour.
MaxExecOps == 2

\* _build_namespace: the seed namespace for a process whose selected thread is t.
BuildNamespace(t) ==
    [n \in Names |->
        IF n = "process" THEN "P"
        ELSE IF n = "thread" THEN t
        ELSE IF n = "frame" THEN SelectedFrame(t)
        ELSE Absent]

\* __init__: _scaffold = the namespace entries whose key is a reserved name.
InitScaffold(ns) ==
    [n \in Names |-> IF n \in RESERVED_NAMES /\ ns[n] # Absent THEN ns[n] ELSE NotScaffold]

\* The keys of the scaffold mapping.
ScaffoldKeys(sc) == {n \in Names : sc[n] # NotScaffold}

\* A restore that only rebinds names still present in the namespace.
RestoreScaffold_SkipDeleted(ns, sc) ==
    [n \in Names |-> IF sc[n] # NotScaffold /\ ns[n] # Absent THEN sc[n] ELSE ns[n]]

\* _restore_scaffold: every scaffold entry is written back into the namespace.
RestoreScaffold(ns, sc) ==
    [n \in Names |-> IF sc[n] # NotScaffold THEN sc[n] ELSE ns[n]]

\* refresh: thread and frame are re-read from the process; an exception on
\* either read ends the refresh leaving what was written so far.
Refresh(ns, t, rf) ==
    IF rf = "failThread" THEN ns
    ELSE IF rf = "failFrame" /\ t # "None" THEN [ns EXCEPT !["thread"] = t]
    ELSE [ns EXCEPT !["thread"] = t, !["frame"] = SelectedFrame(t)]

\* The fragment's effect on the namespace: it rebinds or deletes a name.
FragmentEffect(ns, n, v) == [ns EXCEPT ![n] = v]

\* An except clause that catches nothing.
ExecCatches_Nothing(outcome) == FALSE

\* `except Exception:` of execute and _execute_sync.
ExecCatches(outcome) == outcome = "Exception"

\* The namespace after a fragment has run and its exception, if any, was handled:
\* the restore and the refresh are skipped when the exception propagates.
AfterFragment(ns, sc, t, rf, propagates) ==
    IF propagates THEN ns ELSE Refresh(RestoreScaffold(ns, sc), t, rf)

ExecInit ==
    /\ selThread \in ThreadVals
    /\ namespace = BuildNamespace(selThread)
    /\ scaffold = InitScaffold(namespace)
    /\ exLast = [op |-> "init", touched |-> "process", outcome |-> "ok", status |-> "returned",
                 succeeded |-> TRUE, traceback |-> FALSE, refresh |-> "ok"]
    /\ exCount = 0

\* update_scaffold(name, value).
UpdateScaffold ==
    /\ exCount < MaxExecOps
    /\ \E n \in Names, v \in UserVals :
        /\ namespace' = [namespace EXCEPT ![n] = v]
        /\ scaffold' = [scaffold EXCEPT ![n] = v]
        /\ exLast' = [op |-> "update_scaffold", touched |-> n, outcome |-> "ok",
                      status |-> "returned", succeeded |-> TRUE, traceback |-> FALSE,
                      refresh |-> "ok"]
    /\ exCount' = exCount + 1
    /\ UNCHANGED selThread
    /\ UNCHANGED exOthers

\* PythonExecutor.execute(code): run the fragment, catch, restore, refresh, return.
Execute ==
    /\ exCount < MaxExecOps
    /\ \E n \in Names, v \in FragmentVals,
          t \in ThreadVals, outcome \in Outcomes, rf \in RefreshOutcomes :
        LET propagates == outcome # "ok" /\ ~ExecCatches(outcome)
            ran == FragmentEffect(namespace, n, v)
        IN  /\ selThread' = t
            /\ namespace' = AfterFragment(ran, scaffold, t, rf, propagates)
            /\ exLast' = [op |-> "execute", touched |-> n, outcome |-> outcome,
                          status |-> IF propagates THEN "raised" ELSE "returned",
                          succeeded |-> (outcome = "ok"),
                          traceback |-> (outcome # "ok" /\ ~propagates),
                          refresh |-> rf]
    /\ exCount' = exCount + 1
    /\ UNCHANGED scaffold
    /\ UNCHANGED exOthers

\* The REPL's signals, raised by DONE() and FINAL_VAR() inside a fragment; both
\* derive from Exception and have except clauses of their own in _execute_sync.
Signals == {"DoneSignal", "FinalVarSignal"}

\* REPLAgent._execute_sync(code), as far as the namespace goes: run the fragment,
\* catch the signals and Exception, restore the scaffold, refresh, return.
ExecuteSync ==
    /\ exCount < MaxExecOps
    /\ \E n \in Names, v \in FragmentVals,
          t \in ThreadVals, outcome \in Outcomes \cup Signals, rf \in RefreshOutcomes :
        LET propagates == outcome \notin ({"ok"} \cup Signals) /\ ~ExecCatches(outcome)
            ran == FragmentEffect(namespace, n, v)
        IN  /\ selThread' = t
            /\ namespace' = AfterFragment(ran, scaffold, t, rf, propagates)
            /\ exLast' = [op |-> "execute_sync", touched |-> n, outcome |-> outcome,
                          status |-> IF propagates THEN "raised" ELSE "returned",
                          succeeded |-> (outcome \in {"ok"} \cup Signals),
                          traceback |-> (outcome = "Exception" /\ ~propagates),
                          refresh |-> rf]
    /\ exCount' = exCount + 1
    /\ UNCHANGED scaffold
    /\ UNCHANGED exOthers

\* The operations whose last run was an execution of a fragment.
ExecOps == {"execute", "execute_sync"}

ExecNext == UpdateScaffold \/ Execute \/ ExecuteSync

\* The engine of a component that is not running: a fresh executor, no thread.
ExecIdle ==
    /\ selThread = "None"
    /\ namespace = BuildNamespace("None")
    /\ scaffold = InitScaffold(BuildNamespace("None"))
    /\ exLast = [op |-> "init", touched |-> "process", outcome |-> "ok", status |-> "returned",
                 succeeded |-> TRUE, traceback |-> FALSE, refresh |-> "ok"]
    /\ exCount = 0

(***************************************************************************)
(* Tool-loop agent: AgentHandler.run_stream                                *)
(***************************************************************************)

\* self.max_steps (scaled down from the default 50).
MaxSteps == 2

\* self.timeout in clock ticks (scaled down from the default 300.0 s).
AgentTimeout == 2

\* Largest number of tool calls in one model response.
MaxToolCalls == 2

\* Largest value of the clock.
MaxClock == 4

ToolCallIds == {"a", "b"}
ToolNames == {"act", "done"}

\* A tool call of a response: id and name.
ToolCalls == [id : ToolCallIds, name : ToolNames]

\* The tool-call lists a response may carry (the empty list: a text response).
Responses == UNION {[1..k -> ToolCalls] : k \in 0..MaxToolCalls}

Message(role, calls, id, kind) == [role |-> role, calls |-> calls, id |-> id, kind |-> kind]

\* Tool-result messages that leave out the results of failed tools.
ToolResultMessages_SkipErrors(results) ==
    LET F[k \in 0..Len(results)] ==
            IF k = 0 THEN <<>>
            ELSE IF results[k].ok
                 THEN Append(F[k - 1], Message("tool", <<>>, results[k].id, "result"))
                 ELSE F[k - 1]
    IN  F[Len(results)]

\* handler.py:131-138: one tool message per entry of tool_results, in order.
ToolResultMessages(results) ==
    [k \in 1..Len(results) |-> Message("tool", <<>>, results[k].id, "result")]

\* A loop that goes on after a done tool call.
ReturnsAfterTools_Never(done) == FALSE

\* handler.py:118-119: `if done: return`, after the loop over the tool calls.
ReturnsAfterTools(done) == done

\* A loop without a wall-clock timeout.
TimedOut_Never(elapsed) == FALSE

\* handler.py:86-87: `if elapsed > self.timeout`.
TimedOut(elapsed) == elapsed > AgentTimeout

\* handler.py:69-81: the system prompt and the initial observation.
AgentInit ==
    /\ agMessages = <<Message("system", <<>>, "", "system"),
                      Message("user", <<>>, "", "initial")>>
    /\ agPc = "top"
    /\ agStepNum = 1
    /\ agResponse = <<>>
    /\ agIdx = 1
    /\ agToolResults = <<>>
    /\ agDone = FALSE
    /\ agSteps = <<>>
    /\ agModelCalls = 0
    /\ agElapsed = 0

\* An await takes no time or one tick.
Later(t) == {u \in {t, t + 1} : u <= MaxClock}

\* The for loop is exhausted: run_stream ends.
AgentExhausted ==
    /\ agPc = "top" /\ agStepNum > MaxSteps
    /\ agPc' = "returned"
    /\ UNCHANGED <<agMessages, agStepNum, agResponse, agIdx, agToolResults, agDone,
                   agSteps, agModelCalls, agElapsed>>
    /\ UNCHANGED agOthers

\* handler.py:86-89: the wall-clock timeout, checked at the top of a step.
AgentTimedOut ==
    /\ agPc = "top" /\ agStepNum <= MaxSteps
    /\ TimedOut(agElapsed)
    /\ agPc' = "returned"
    /\ UNCHANGED <<agMessages, agStepNum, agResponse, agIdx, agToolResults, agDone,
                   agSteps, agModelCalls, agElapsed>>
    /\ UNCHANGED agOthers

\* handler.py:92-101 and 149-168: the model call; a response without tool calls
\* yields a think step and appends the assistant text and the nudge.
AgentChat ==
    /\ agPc = "top" /\ agStepNum <= MaxSteps
    /\ ~TimedOut(agElapsed)
    /\ agModelCalls' = agModelCalls + 1
    /\ agElapsed' \in Later(agElapsed)
    /\ \E r \in Responses :
        IF Len(r) > 0
        THEN /\ agResponse' = r
             /\ agIdx' = 1
             /\ agToolResults' = <<>>
             /\ agDone' = FALSE
             /\ agPc' = "tools"
             /\ UNCHANGED <<agMessages, agStepNum, agSteps>>
        ELSE /\ agSteps' = Append(agSteps, [step_number |-> agStepNum, action |-> "think"])
             /\ agMessages' = agMessages \o
                    <<Message("assistant", <<>>, "", "text"),
                      Message("user", <<>>, "", "continue")>>
             /\ agStepNum' = agStepNum + 1
             /\ UNCHANGED <<agResponse, agIdx, agToolResults, agDone, agPc>>
    /\ UNCHANGED agOthers

\* handler.py:102-116: execute the next tool call of the response, yield its
\* step; _execute_tool returns a result or an error string, never raises.
AgentExecuteTool ==
    /\ agPc = "tools" /\ agIdx <= Len(agResponse)
    /\ \E ok \in BOOLEAN :
        agToolResults' = Append(agToolResults,
            [id |-> agResponse[agIdx].id, name |-> agResponse[agIdx].name, ok |-> ok])
    /\ agSteps' = Append(agSteps, [step_number |-> agStepNum,
                                   action |-> agResponse[agIdx].name])
    /\ agDone' = (agDone \/ agResponse[agIdx].name = "done")
    /\ agIdx' = agIdx + 1
    /\ agElapsed' \in Later(agElapsed)
    /\ UNCHANGED <<agMessages, agPc, agStepNum, agResponse, agModelCalls>>
    /\ UNCHANGED agOthers

\* handler.py:118-119: a done tool call was among the calls: return.
AgentReturnDone ==
    /\ agPc = "tools" /\ agIdx > Len(agResponse)
    /\ ReturnsAfterTools(agDone)
    /\ agPc' = "returned"
    /\ UNCHANGED <<agMessages, agStepNum, agResponse, agIdx, agToolResults, agDone,
                   agSteps, agModelCalls, agElapsed>>
    /\ UNCHANGED agOthers

\* handler.py:121-148: append the assistant message with all tool calls, one
\* tool message per result, and the refreshed process state.
AgentAppendResults ==
    /\ agPc = "tools" /\ agIdx > Len(agResponse)
    /\ ~ReturnsAfterTools(agDone)
    /\ agMessages' = (Append(agMessages,
                          Message("assistant", [k \in 1..Len(agResponse) |-> agResponse[k].id],
                                  "", "tool_calls"))
                      \o ToolResultMessages(agToolResults))
                      \o <<Message("user", <<>>, "", "updated")>>
    /\ agStepNum' = agStepNum + 1
    /\ agPc' = "top"
    /\ UNCHANGED <<agResponse, agIdx, agToolResults, agDone, agSteps, agModelCalls,
                   agElapsed>>
    /\ UNCHANGED agOthers

AgentNext ==
    \/ AgentExhausted \/ AgentTimedOut \/ AgentChat
    \/ AgentExecuteTool \/ AgentReturnDone \/ AgentAppendResults

AgentIdle ==
    /\ agMessages = <<>> /\ agPc = "returned" /\ agStepNum = 1 /\ agResponse = <<>>
    /\ agIdx = 1 /\ agToolResults = <<>> /\ agDone = FALSE /\ agSteps = <<>>
    /\ agModelCalls = 0 /\ agElapsed = 0

\* C2: every assistant message of the history that carries N tool calls is
\* followed at once by exactly N tool messages whose ids are, in order, the ids
\* of those calls.
C2_ToolResultsFollowCalls ==
    \A i \in 1..Len(agMessages) :
        (agMessages[i].role = "assistant" /\ Len(agMessages[i].calls) > 0) =>
            LET N == Len(agMessages[i].calls)
            IN  /\ i + N <= Len(agMessages)
                /\ \A k \in 1..N :
                        /\ agMessages[i + k].role = "tool"
                        /\ agMessages[i + k].id = agMessages[i].calls[k]
                /\ i + N + 1 <= Len(agMessages) => agMessages[i + N + 1].role # "tool"

\* C2 witness: an assistant message with two tool calls of different ids, one
\* of which failed, is in the history with its results.
C2_Witness ==
    \E i \in 1..Len(agMessages) :
        /\ agMessages[i].role = "assistant"
        /\ agMessages[i].calls = <<"b", "a">>
        /\ Len(agMessages) >= i + 3
        /\ agMessages[i + 1].id = "b" /\ agMessages[i + 2].id = "a"

\* C21 as stated: once a done tool call has been executed no further tool
\* call is executed: the step yielded for done is the last step of the run.
C21_DoneStepIsLast ==
    agDone => agSteps[Len(agSteps)].action = "done"

\* C21: once a done tool call has been executed no further model call is made
\* and nothing is appended to the history; the tool calls that follow done in
\* the same response are still executed and yielded, each with the step number
\* of the done step, and run_stream returns after the last of them.
C21_DoneEndsRunAfterResponse ==
    /\ [](agDone =>
            /\ agPc \in {"tools", "returned"}
            /\ agModelCalls = agStepNum
            /\ \E i \in 1..Len(agSteps) :
                    /\ agSteps[i].action = "done"
                    /\ \A j \in i..Len(agSteps) : agSteps[j].step_number = agStepNum)
    /\ [](agDone /\ agPc = "returned" =>
            Len(agToolResults) = Len(agResponse))
    /\ [][agDone => /\ agModelCalls' = agModelCalls
                    /\ agMessages' = agMessages
                    /\ agStepNum' = agStepNum
                    /\ agDone']_vars

\* A run ended by a response whose done call was followed by another tool
\* call, in the second step.
C21_Witness ==
    /\ agDone /\ agPc = "returned" /\ agStepNum = 2
    /\ Len(agResponse) = 2 /\ agResponse[1].name = "done"
    /\ agSteps[Len(agSteps)].action = "act"

\* C31: a model call is made only at the top of a step whose number is at
\* most max_steps and with the elapsed time not above the timeout, so a run
\* makes at most max_steps model calls; and the run always ends: the step
\* number and the index of the tool call are bounded, every step of the run
\* moves forward through them, and a run that has not returned can go on.
C31_BoundedStepsAndTimeout ==
    /\ [][agModelCalls' # agModelCalls =>
            /\ agPc = "top" /\ agStepNum <= MaxSteps /\ agElapsed <= AgentTimeout
            /\ agModelCalls' = agModelCalls + 1]_vars
    /\ [](agModelCalls <= MaxSteps /\ agStepNum <= MaxSteps + 1
          /\ agIdx <= Len(agResponse) + 1 /\ Len(agResponse) <= MaxToolCalls)
    /\ [][\/ agStepNum' > agStepNum
          \/ agStepNum' = agStepNum /\ agPc = "top" /\ agPc' \in {"tools", "returned"}
          \/ agStepNum' = agStepNum /\ agPc = "tools" /\ agPc' = "tools" /\ agIdx' > agIdx
          \/ agPc = "tools" /\ agPc' = "returned"]_vars
    /\ [](agPc # "returned" => ENABLED AgentNext)

\* A run ended by the timeout at the top of its second step, after one model
\* call.
C31_Witness ==
    /\ agPc = "returned" /\ ~agDone /\ agStepNum = 2 /\ agModelCalls = 1
    /\ agElapsed > AgentTimeout

(***************************************************************************)
(* Act pipeline: ActHandler.act and ActHandler._try_heal                   *)
(***************************************************************************)

\* Largest max_retries a handler is configured with (the default is 3).
MaxRetries == 2

\* Number of act calls in one behaviour.
MaxActCalls == 2

\* Instructions and rendered context texts, as sequences of characters.
Instructions == {<<"i">>, <<"j">>}
Contexts == {<<"c">>, <<"d">>}

\* Python's None where an ActResult (or its stored dump) is expected.
NoEntry == [success |-> FALSE, message |-> "<no entry>", attempt |-> 0]
NoResult == [success |-> FALSE, message |-> "<no result>", attempt |-> 0]

\* "\n".join(parts).
RECURSIVE JoinLines(_)
JoinLines(parts) ==
    IF Len(parts) = 0 THEN <<>>
    ELSE IF Len(parts) = 1 THEN parts[1]
    ELSE parts[1] \o <<"\n">> \o JoinLines(Tail(parts))

\* ActHandler._cache_key: the digest of f"{instruction}\n{context_text}\nact";
\* the digest is taken to be collision-free and is represented by the blob.
ActCacheKey(instruction, context_text) == JoinLines(<<instruction, context_text, <<"a", "c", "t">>>>)

ActKeys == {ActCacheKey(i, c) : i \in Instructions, c \in Contexts}

\* What one translate call does: the structured call answers with code, answers
\* without code, or fails; after a failure the raw chat answers with text that
\* parses to code, to no code, or raises.
TranslateOutcomes ==
    {[structured |-> st, raw |-> rw] :
        st \in {"code", "nocode", "fail"}, rw \in {"code", "nocode", "raise"}}

\* TranslateEngine.translate followed by _get_code: "code", "nocode" or "raise".
Translated(t) == IF t.structured = "fail" THEN t.raw ELSE t.structured

\* The ActResult values the model tells apart.
ActResults ==
    {[success |-> sc, message |-> m, attempt |-> k] :
        sc \in BOOLEAN, m \in {"reasoning", "healed", "no code"}, k \in 0..(MaxRetries + 1)}

FirstResult(succeeded) == [success |-> succeeded, message |-> "reasoning", attempt |-> 0]
NoCodeResult == [success |-> FALSE, message |-> "no code", attempt |-> 0]

\* A message that numbers the attempts from 0.
HealedResult_FromZero(attempt) == [success |-> TRUE, message |-> "healed", attempt |-> attempt]

\* act.py:210-215: success, message f"Healed on attempt {attempt + 1}: ...".
HealedResult(attempt) == [success |-> TRUE, message |-> "healed", attempt |-> attempt + 1]

Event(e, ok, k) == [e |-> e, ok |-> ok, k |-> k]

\* A write made whenever a cache is configured.
ShouldCache_Always(succeeded, cache) == cache

\* act.py:144: `if succeeded and self._cache is not None`.
ShouldCache(succeeded, cache) == succeeded /\ cache

\* A heal result that act drops, returning the first execution's result.
ResultAfterHeal_Dropped(healed, first) == first

\* act.py:126-141: the healed result when healing produced one, else the result
\* of the first execution.
ResultAfterHeal(healed, first) == IF healed # NoResult THEN healed ELSE first

\* A loop that makes one attempt too many.
HealLoopRuns_OneMore(attempt, max_retries) == attempt <= max_retries

\* act.py:157: `for attempt in range(self.max_retries)`.
HealLoopRuns(attempt, max_retries) == attempt < max_retries

\* A lookup that never hits.
CacheHit_Never(cache, entry) == FALSE

\* act.py:92-95: `self._cache is not None` and `cached is not None`.
CacheHit(cache, entry) == cache /\ entry # NoEntry

\* A heal attempt that keeps the snapshot it was given.
FreshSnapshot_Reused(ctx, old) == old

\* act.py:88-89 and 172-173: context_builder.build(process) rendered by
\* format_for_prompt: the text of the process state at that moment.
FreshSnapshot(ctx, old) == ctx

\* The call before the first one; also kept for a call that did not return
\* success or that another call follows: nothing more is remembered of it.
NoPrev == [instruction |-> <<>>, ctx |-> <<>>, result |-> NoResult, pc |-> "idle",
           stored |-> FALSE]

\* FileStorage.set: the entry is written, or an OSError is swallowed.
CacheSet(cache, key, value, written) ==
    IF written THEN [cache EXCEPT ![key] = value] ELSE cache

ActInit ==
    /\ actCfg \in [cache : BOOLEAN, self_heal : BOOLEAN, max_retries : 0..MaxRetries]
    /\ actPc = "idle"
    /\ actCache = [k \in ActKeys |-> NoEntry]
    /\ actCtx \in Contexts
    /\ actCall = [instruction |-> <<"i">>, key |-> ActCacheKey(<<"i">>, <<"c">>),
                  cacheAtCall |-> actCache, attempt |-> 0,
                  ctx |-> <<"c">>, snap |-> <<"c">>, prev |-> NoPrev]
    /\ actLog = <<>>
    /\ actResult = NoResult
    /\ actCalls = 0

\* act.py:88-97: snapshot, render, look the key up; a hit returns the stored result.
ActBegin ==
    /\ actPc \in {"idle", "returned", "raised"}
    /\ actCalls < MaxActCalls
    /\ actCalls' = actCalls + 1
    /\ \E instruction \in Instructions :
        LET context_text == FreshSnapshot(actCtx, actCall.snap)
            key == ActCacheKey(instruction, context_text)
            hit == CacheHit(actCfg.cache, actCache[key])
            stored == \/ \E i \in 1..Len(actLog) : actLog[i].e = "cache_set" /\ actLog[i].ok
                      \/ actPc = "returned" /\ Len(actLog) = 1
        IN  /\ actCall' = [instruction |-> instruction, key |-> key,
                           cacheAtCall |-> actCache, attempt |-> 0,
                           ctx |-> context_text, snap |-> context_text,
                           prev |-> IF /\ actPc = "returned" /\ actResult.success
                                       /\ actCall.instruction = instruction
                                       /\ actCall.ctx = context_text
                                    THEN [instruction |-> actCall.instruction,
                                          ctx |-> actCall.ctx, result |-> actResult,
                                          pc |-> actPc, stored |-> stored]
                                    ELSE NoPrev]
            /\ actLog' = <<Event("snapshot", TRUE, 0)>>
            /\ actPc' = IF hit THEN "returned" ELSE "translate"
            /\ actResult' = IF hit THEN actCache[key] ELSE NoResult
    /\ UNCHANGED <<actCfg, actCache, actCtx>>
    /\ UNCHANGED actOthers

\* act.py:99-118: translate; without code the call returns a failure result.
ActTranslate ==
    /\ actPc = "translate"
    /\ \E t \in TranslateOutcomes :
        /\ actLog' = Append(actLog, Event("translate", Translated(t) # "raise", 0))
        /\ actPc' = CASE Translated(t) = "code" -> "execute"
                      [] Translated(t) = "nocode" -> "returned"
                      [] OTHER -> "raised"
        /\ actResult' = IF Translated(t) = "nocode" THEN NoCodeResult ELSE actResult
    /\ UNCHANGED <<actCfg, actCache, actCtx, actCall, actCalls>>
    /\ UNCHANGED actOthers

\* act.py:121-147: execute the code; on success cache and return; on failure
\* enter healing when self_heal is set, else return the failure.
ActExecute ==
    /\ actPc = "execute"
    /\ \E outcome \in Outcomes, ctx \in Contexts, written \in BOOLEAN :
        LET propagates == outcome # "ok" /\ ~ExecCatches(outcome)
            succeeded == outcome = "ok"
            heals == ~succeeded /\ actCfg.self_heal
            caches == ~propagates /\ ~heals /\ ShouldCache(succeeded, actCfg.cache)
        IN  /\ actCtx' = ctx
            /\ actPc' = IF propagates THEN "raised" ELSE IF heals THEN "heal" ELSE "returned"
            /\ actResult' = IF propagates \/ heals THEN actResult ELSE FirstResult(succeeded)
            /\ actCache' = IF caches
                           THEN CacheSet(actCache, actCall.key, FirstResult(succeeded), written)
                           ELSE actCache
            /\ actLog' = Append(actLog, Event("execute", succeeded, 0))
                         \o (IF caches THEN <<Event("cache_set", written, 0)>> ELSE <<>>)
    /\ UNCHANGED <<actCfg, actCall, actCalls>>
    /\ UNCHANGED actOthers

\* act.py:157-173: the next heal attempt starts: heal-start event, fresh snapshot.
HealStart ==
    /\ actPc = "heal"
    /\ HealLoopRuns(actCall.attempt, actCfg.max_retries)
    /\ actLog' = actLog \o <<Event("heal_start", TRUE, actCall.attempt + 1),
                             Event("snapshot", TRUE, actCall.attempt + 1)>>
    /\ actPc' = "heal_translate"
    /\ actCall' = [actCall EXCEPT !.snap = FreshSnapshot(actCtx, actCall.snap)]
    /\ UNCHANGED <<actCfg, actCache, actCtx, actResult, actCalls>>
    /\ UNCHANGED actOthers

\* act.py:219 and 136-147: the attempts are used up: _try_heal returns None and
\* act returns the result of the first execution, uncached.
HealExhausted ==
    /\ actPc = "heal"
    /\ ~HealLoopRuns(actCall.attempt, actCfg.max_retries)
    /\ actResult' = ResultAfterHeal(NoResult, FirstResult(FALSE))
    /\ actPc' = "returned"
    /\ UNCHANGED <<actCfg, actCache, actCtx, actCall, actLog, actCalls>>
    /\ UNCHANGED actOthers

\* act.py:184-192: the heal translate; without code the attempt is skipped.
HealTranslate ==
    /\ actPc = "heal_translate"
    /\ \E t \in TranslateOutcomes :
        /\ actLog' = Append(actLog, Event("translate", Translated(t) # "raise",
                                          actCall.attempt + 1))
        /\ actPc' = CASE Translated(t) = "code" -> "heal_execute"
                      [] Translated(t) = "nocode" -> "heal"
                      [] OTHER -> "raised"
        /\ actCall' = IF Translated(t) = "nocode"
                      THEN [actCall EXCEPT !.attempt = @ + 1] ELSE actCall
    /\ UNCHANGED <<actCfg, actCache, actCtx, actResult, actCalls>>
    /\ UNCHANGED actOthers

\* act.py:194-217 and 130-134: execute the heal code, emit heal-end; on success
\* act caches the healed result under the call's key and returns it.
HealExecute ==
    /\ actPc = "heal_execute"
    /\ \E outcome \in Outcomes, ctx \in Contexts, written \in BOOLEAN :
        LET propagates == outcome # "ok" /\ ~ExecCatches(outcome)
            succeeded == outcome = "ok"
            k == actCall.attempt + 1
            healed == IF succeeded THEN HealedResult(actCall.attempt) ELSE NoResult
            result == ResultAfterHeal(healed, FirstResult(FALSE))
            caches == succeeded /\ actCfg.cache
        IN  /\ actCtx' = ctx
            /\ actPc' = IF propagates THEN "raised" ELSE IF succeeded THEN "returned" ELSE "heal"
            /\ actResult' = IF succeeded THEN result ELSE actResult
            /\ actCache' = IF caches THEN CacheSet(actCache, actCall.key, healed, written)
                           ELSE actCache
            /\ actLog' = Append(actLog, Event("execute", succeeded, k))
                         \o (IF propagates THEN <<>> ELSE <<Event("heal_end", succeeded, k)>>)
                         \o (IF caches THEN <<Event("cache_set", written, k)>> ELSE <<>>)
            /\ actCall' = IF ~propagates /\ ~succeeded
                          THEN [actCall EXCEPT !.attempt = @ + 1] ELSE actCall
    /\ UNCHANGED <<actCfg, actCalls>>
    /\ UNCHANGED actOthers

ActNext ==
    \/ ActBegin \/ ActTranslate \/ ActExecute
    \/ HealStart \/ HealExhausted \/ HealTranslate \/ HealExecute

ActIdle ==
    /\ actCfg = [cache |-> FALSE, self_heal |-> FALSE, max_retries |-> 0]
    /\ actPc = "idle"
    /\ actCache = [k \in ActKeys |-> NoEntry]
    /\ actCtx = <<"c">>
    /\ actCall = [instruction |-> <<"i">>, key |-> ActCacheKey(<<"i">>, <<"c">>),
                  cacheAtCall |-> actCache, attempt |-> 0,
                  ctx |-> <<"c">>, snap |-> <<"c">>, prev |-> NoPrev]
    /\ actLog = <<>>
    /\ actResult = NoResult
    /\ actCalls = 0

\* The events of a given kind in the running call's log.
LogIndices(e) == {i \in 1..Len(actLog) : actLog[i].e = e}

\* C4: act writes a cache entry only after an execution of that call succeeded;
\* a call that returns a failure (no code, failed execution without healing,
\* every heal attempt failed) has written nothing to the cache.
C4_CacheWrittenOnlyAfterSuccess ==
    /\ \A i \in LogIndices("cache_set") :
            \E j \in 1..(i - 1) : actLog[j].e = "execute" /\ actLog[j].ok
    /\ \A k \in ActKeys :
            actCache[k] # actCall.cacheAtCall[k] =>
                (k = actCall.key /\ actCache[k].success /\ LogIndices("cache_set") # {})
    /\ (actPc = "returned" /\ ~actResult.success) =>
            (LogIndices("cache_set") = {} /\ actCache = actCall.cacheAtCall)

\* C4 witness: with the cache on, the first execution and the first heal attempt
\* failed, the second heal attempt succeeded and its result was written.
C4_Witness ==
    /\ actCfg.cache /\ actPc = "returned"
    /\ \E i \in LogIndices("cache_set") : actLog[i].ok /\ actLog[i].k = 2
    /\ actCache[actCall.key] = HealedResult(1)
    /\ actCall.cacheAtCall[actCall.key] = NoEntry

\* C5: once the execution of a heal attempt succeeds, nothing but the heal-end
\* event and the cache write follows in that call, and act has returned
\* success = true.
C5_HealSuccessIsFinal ==
    \A i \in LogIndices("execute") :
        (actLog[i].ok /\ actLog[i].k >= 1) =>
            /\ \A j \in (i + 1)..Len(actLog) : actLog[j].e \in {"heal_end", "cache_set"}
            /\ actPc = "returned"
            /\ actResult.success
            /\ actResult = HealedResult(actLog[i].k - 1)

\* C5 witness: the second heal attempt succeeded after the first one failed.
C5_Witness ==
    /\ actPc = "returned" /\ actResult = HealedResult(1)
    /\ \E i \in LogIndices("execute") : ~actLog[i].ok /\ actLog[i].k = 1
    /\ \E i \in LogIndices("execute") : actLog[i].ok /\ actLog[i].k = 2

\* C38: when act returns, every heal-start event of the call has been followed
\* by the heal-end event of the same attempt before the next heal-start, so
\* the call emitted as many heal-end events as heal-start events.
C38_HealEventsPaired ==
    actPc = "returned" =>
        /\ Cardinality(LogIndices("heal_start")) = Cardinality(LogIndices("heal_end"))
        /\ \A i \in LogIndices("heal_start") :
            \E j \in LogIndices("heal_end") :
                /\ j > i /\ actLog[j].k = actLog[i].k
                /\ \A m \in LogIndices("heal_start") : ~(i < m /\ m < j)

\* The call is running.
ActBusy == actPc \notin {"idle", "returned", "raised"}

RepeatsSuccessfulCall ==
    /\ actCalls >= 2 /\ actCfg.cache
    /\ actCall.prev.pc = "returned" /\ actCall.prev.result.success
    /\ actCall.prev.instruction = actCall.instruction
    /\ actCall.prev.ctx = actCall.ctx

\* The running call was answered from the cache: it returned the result of the
\* call before it without a translate request or an execution.
AnsweredFromCache ==
    /\ actPc = "returned" /\ actResult = actCall.prev.result
    /\ LogIndices("translate") = {} /\ LogIndices("execute") = {}

\* C11 as stated: after an act call that returned success with the cache
\* enabled, an identical second call returns an equal result and makes no
\* model call.
C11_SecondCallHitsCache == RepeatsSuccessfulCall => AnsweredFromCache

\* C11, amended: the second call is answered from the cache when the first
\* call's entry was stored, that is unless the storage's write failed with an
\* OSError, which FileStorage.set swallows.
C11_SecondCallHitsStoredEntry ==
    (RepeatsSuccessfulCall /\ actCall.prev.stored) => AnsweredFromCache

\* C11 witness: the first call was healed and stored, the second, identical
\* one returned the healed result from the cache.
C11_Witness ==
    /\ RepeatsSuccessfulCall /\ actCall.prev.stored /\ AnsweredFromCache
    /\ actResult.message = "healed" /\ actCalls = 2

\* The successful executions of heal attempts in the running call's log.
HealSuccesses == {i \in LogIndices("execute") : actLog[i].ok /\ actLog[i].k >= 1}

\* The running call stored an entry.
WriteStored == \E i \in LogIndices("cache_set") : actLog[i].ok

\* C16 as stated: when heal attempt k is the first to succeed, act returns
\* success with the message of attempt k and the cache entry under the key of
\* the original call holds exactly that result.
C16_HealedResultCached ==
    \A i \in HealSuccesses :
        /\ actPc = "returned" /\ actResult.success
        /\ actResult.message = "healed" /\ actResult.attempt = actLog[i].k
        /\ actCfg.cache => actCache[actCall.key] = actResult

\* C16, amended: the entry under the key of (instruction, initial context
\* text) holds the healed result when the cache is enabled and the write was
\* stored; when the write failed with an OSError (swallowed), or without a
\* cache, the cache is as it was when the call began.
C16_HealedResultCachedWhenStored ==
    \A i \in HealSuccesses :
        /\ actPc = "returned" /\ actResult.success
        /\ actResult.message = "healed" /\ actResult.attempt = actLog[i].k
        /\ \A j \in LogIndices("execute") : j < i => ~actLog[j].ok
        /\ actCall.key = ActCacheKey(actCall.instruction, actCall.ctx)
        /\ IF actCfg.cache /\ WriteStored
           THEN actCache[actCall.key] = actResult
           ELSE actCache = actCall.cacheAtCall

\* C16 witness: the second heal attempt succeeded after the context changed,
\* and its result is stored under the key of the initial context.
C16_Witness ==
    /\ actPc = "returned" /\ actCfg.cache /\ WriteStored
    /\ \E i \in HealSuccesses : actLog[i].k = 2
    /\ actCtx # actCall.ctx
    /\ actCache[ActCacheKey(actCall.instruction, actCall.ctx)].attempt = 2

\* C19: within one act call the first event is a snapshot; every translate
\* request comes after a snapshot with no execution (and no other translate)
\* in between, and the snapshot it sends is the text of the current process
\* state; every execution directly follows the translate that produced its code.
C19_SnapshotTranslateExecuteOrder ==
    /\ Len(actLog) > 0 => actLog[1].e = "snapshot"
    /\ \A i \in LogIndices("translate") :
            \E j \in 1..(i - 1) :
                /\ actLog[j].e = "snapshot"
                /\ \A m \in (j + 1)..(i - 1) : actLog[m].e \notin {"execute", "translate"}
    /\ \A i \in LogIndices("execute") :
            i > 1 /\ actLog[i - 1].e = "translate" /\ actLog[i - 1].ok
    /\ actPc \in {"translate", "heal_translate"} => actCall.snap = actCtx

\* C19 witness: the second heal attempt is about to translate with a snapshot
\* that differs from the one the call began with.
C19_Witness ==
    /\ actPc = "heal_translate" /\ actCall.attempt = 1
    /\ actCall.snap # actCall.ctx
    /\ Cardinality(LogIndices("snapshot")) = 3 /\ Cardinality(LogIndices("execute")) = 2

\* C20: a failure of the model calls inside translate never reaches act's
\* caller as an exception: the only way act raises is out of an execution.
C20_TranslateFailureNeverRaises ==
    actPc = "raised" => actLog[Len(actLog)].e = "execute"

(***************************************************************************)
(* REPL agent: REPLAgent.run, _execute_async, llm_query, llm_query_batched *)
(***************************************************************************)

\* self.max_iterations (scaled down from the default 30).
MaxIterations == 3

\* self._llm_query_budget (scaled down from the default 5).
LlmQueryBudget == 2

\* self._llm_query_timeout in clock ticks (scaled down from the default 30.0 s).
LlmQueryTimeout == 1

\* llm_query_batched's default timeout in ticks (scaled down from 60.0 s).
BatchedTimeout == 2

\* _MAX_BATCH_SIZE.
MAX_BATCH_SIZE == 5

\* self._compaction_threshold in tokens (scaled down from 150 000).
CompactionThreshold == 8

\* len(code_blocks) of a model response.
BlockCounts == {0, 1, 2}

\* len(content) of a response without and with code blocks, of a summary.
ProseLen == 4
CodeLen == 12
SummaryLen == 8

\* Largest number of scaffold calls (llm_query, llm_query_batched, a caught
\* DONE) one block makes.
MaxScriptOps == 1

\* Python's None as a timeout argument.
NoTimeout == -1

\* The timeout a script passes to llm_query / llm_query_batched.
TimeoutArgs == {NoTimeout, 1}

\* len(prompts) of a llm_query_batched call.
BatchSizes == {2, 6}

\* A ChatMessage of the REPL history: role, what it is, len(content).
RpMessage(role, kind, len) == [role |-> role, kind |-> kind, len |-> len]

\* sum(len(m.content) for m in messages).
RECURSIVE ContentLength(_)
ContentLength(messages) ==
    IF Len(messages) = 0 THEN 0 ELSE messages[1].len + ContentLength(Tail(messages))

\* REPLAgent._estimate_tokens.
EstimateTokens(messages) == ContentLength(messages) \div 4

\* REPLAgent._compact_history calls the model only for more than 5 messages.
CompactionCalls(messages) == Len(messages) > 5

\* A compaction that keeps one message less of the tail.
CompactHistory_KeepThree(messages, summaryLen) ==
    IF ~CompactionCalls(messages) THEN messages
    ELSE <<messages[1], RpMessage("user", "compacted", 20 + summaryLen)>>
         \o SubSeq(messages, Len(messages) - 2, Len(messages))

\* REPLAgent._compact_history, given the length of the model's summary: the
\* "[Compacted history]\n" prefix is 20 characters long.
CompactHistory(messages, summaryLen) ==
    IF ~CompactionCalls(messages) THEN messages
    ELSE <<messages[1], RpMessage("user", "compacted", 20 + summaryLen)>>
         \o SubSeq(messages, Len(messages) - 3, Len(messages))

\* A timeout with no default behind it.
EffectiveTimeout_NoDefault(timeout, default) == timeout

\* repl.py:157 and 208: `timeout if timeout is not None else <default>`.
EffectiveTimeout(timeout, default) == IF timeout # NoTimeout THEN timeout ELSE default

\* A loop that runs one iteration too many.
RpLoopRuns_OneMore(step) == step <= MaxIterations + 1

\* repl.py:397: `for step in range(1, self.max_iterations + 1)`.
RpLoopRuns(step) == step <= MaxIterations

\* A block loop that goes on after done.
MoreBlocks_IgnoringDone(done, left) == left > 0

\* repl.py:441 and 459-460: the for loop over the blocks, left when done is set.
MoreBlocks(done, left) == ~done /\ left > 0

\* A response without code that is left without an answer.
NudgeAfter_Nothing(messages) == messages

\* repl.py:430-434: without a code block the nudge follows the response.
NudgeAfter(messages) == Append(messages, RpMessage("user", "nudge", 8))

NoFuture == [state |-> "none", k |-> 0, timeout |-> 0, waited |-> 0]
NoRet == [result |-> "<none>", steps |-> 0]

\* The worker thread with no block to run.
NoWorker == [state |-> "idle", ops |-> 0, err |-> "", shown |-> "none"]

\* The errors llm_query and llm_query_batched raise by themselves: the budget
\* RuntimeError (repl.py:149-152, 198-206) and the timeout (repl.py:168-174).
SubQueryErrors == {"budget exceeded", "timed out"}

\* The interpreters the package runs on (types/config.py:76 keeps a branch for
\* the ones older than 3.11).
PythonBuilds == {"3.10", "3.11"}

\* repl.py:170 and 224: `except TimeoutError` around future.result(timeout=...).
\* What future.result raises is concurrent.futures.TimeoutError, which is the
\* builtin TimeoutError from Python 3.11 on and a class of its own before.
CatchesFutureTimeout(build) == build = "3.11"

\* MAX_OUTPUT_CHARS.
MAX_OUTPUT_CHARS == 20000

\* len(traceback.format_exc()) of an error raised in a block.
TracebackLen == 300

\* Number of characters a block writes to stderr by itself.
ScriptStderrLens == {0, 30000}

\* executor.py:53-56, _truncate: the number of leading characters of the text
\* that are kept (the marker appended after them is not part of the text).
TruncateKeeps(len) == IF len <= MAX_OUTPUT_CHARS THEN len ELSE MAX_OUTPUT_CHARS

\* repl.py:257-277 and 453-454: what the stderr section of a block's part shows.
\* The traceback is written after what the script wrote, its last line names
\* the error, and _truncate keeps the head of the whole.
StderrShown(outcome, written) ==
    LET traceback == IF outcome \in SubQueryErrors \cup {"failed"} THEN TracebackLen ELSE 0
        total == written + traceback
    IN  IF total = 0 THEN "none"
        ELSE IF TruncateKeeps(total) < total THEN "truncated"
        ELSE IF outcome \in SubQueryErrors THEN outcome
        ELSE "traceback"

\* No feedback message was just appended.
NoFeedback == "none"

\* A feedback that leaves the stderr sections out.
FeedbackKind_WithoutStderr(parts) == "feedback"

\* repl.py:450-457 and 464: the feedback joins the parts, stderr sections
\* included.
FeedbackKind(parts) ==
    IF \E i \in 1..Len(parts) : parts[i]
    THEN "feedback with stderr" ELSE "feedback"

\* The future is pending: scheduled on the loop or its chat call in flight.
FuturePending == fut.state \in {"scheduled", "inflight"}

\* run awaits run_in_executor, so the event loop is free to run other tasks.
LoopFree == rpPc = "exec"

\* repl.py:392-395 and 371-378: a fresh history, the per-run state reset.
RpInit ==
    /\ rpPc = "top"
    /\ rpStep = 1
    /\ rpMessages = <<RpMessage("system", "system", 8), RpMessage("user", "begin", 8)>>
    /\ rpBlocksLeft = 0
    /\ rpDone = FALSE
    /\ rpResult = ""
    /\ rpCalls = 0
    /\ rpStarted = 0
    /\ rpMainCalls = 0
    /\ rpCompactCalls = 0
    /\ rpExecuted = 0
    /\ rpRet = NoRet
    /\ rpParts = <<>>
    /\ rpFeedback = NoFeedback
    /\ wk = NoWorker
    /\ fut = NoFuture

\* repl.py:485-494: the loop is over without done: the max-reached result.
RpExhausted ==
    /\ rpPc = "top" /\ ~RpLoopRuns(rpStep)
    /\ rpRet' = [result |-> "Max iterations reached", steps |-> MaxIterations]
    /\ rpPc' = "returned"
    /\ UNCHANGED <<rpStep, rpMessages, rpBlocksLeft, rpDone, rpResult, rpCalls,
                   rpStarted, rpMainCalls, rpCompactCalls, rpExecuted, rpParts, rpFeedback, wk, fut>>
    /\ UNCHANGED rpOthers

\* repl.py:400-405: compact the history when its estimate exceeds the threshold
\* (one summarisation call, which may raise), then reset the sub-query counter.
\* The feedback of the iteration before is by now one message of the history.
RpLoopTop ==
    /\ rpPc = "top" /\ RpLoopRuns(rpStep)
    /\ \E raises \in BOOLEAN :
        LET compacts == EstimateTokens(rpMessages) > CompactionThreshold
            calls == compacts /\ CompactionCalls(rpMessages)
        IN  /\ raises => calls
            /\ rpCompactCalls' = IF calls THEN rpCompactCalls + 1 ELSE rpCompactCalls
            /\ rpMessages' = IF compacts /\ ~raises
                             THEN CompactHistory(rpMessages, SummaryLen) ELSE rpMessages
            /\ rpPc' = IF raises THEN "raised" ELSE "chat"
            /\ rpCalls' = IF raises THEN rpCalls ELSE 0
            /\ rpStarted' = IF raises THEN rpStarted ELSE 0
    /\ rpFeedback' = NoFeedback
    /\ UNCHANGED <<rpStep, rpBlocksLeft, rpDone, rpResult, rpMainCalls,
                   rpExecuted, rpRet, rpParts, wk, fut>>
    /\ UNCHANGED rpOthers

\* repl.py:416-440: the main model call; the response is appended, and without
\* a code block the nudge follows and the next iteration starts; with blocks
\* the list of parts starts empty.
RpChat ==
    /\ rpPc = "chat"
    /\ rpMainCalls' = rpMainCalls + 1
    /\ rpParts' = <<>>
    /\ \E raises \in BOOLEAN, blocks \in BlockCounts :
        IF raises
        THEN /\ rpPc' = "raised"
             /\ UNCHANGED <<rpMessages, rpStep, rpBlocksLeft>>
        ELSE IF blocks = 0
        THEN /\ rpMessages' = NudgeAfter(Append(rpMessages,
                                                 RpMessage("assistant", "response", ProseLen)))
             /\ rpStep' = rpStep + 1
             /\ rpPc' = "top"
             /\ UNCHANGED rpBlocksLeft
        ELSE /\ rpMessages' = Append(rpMessages, RpMessage("assistant", "response", CodeLen))
             /\ rpBlocksLeft' = blocks
             /\ rpPc' = "blocks"
             /\ UNCHANGED rpStep
    /\ UNCHANGED <<rpDone, rpResult, rpCalls, rpStarted, rpCompactCalls, rpExecuted,
                   rpRet, rpFeedback, wk, fut>>
    /\ UNCHANGED rpOthers

\* repl.py:441-444 and 303-316: the next block goes to the worker thread.
RpBlockStart ==
    /\ rpPc = "blocks" /\ MoreBlocks(rpDone, rpBlocksLeft)
    /\ rpPc' = "exec"
    /\ wk' = [state |-> "running", ops |-> 0, err |-> "", shown |-> "none"]
    /\ UNCHANGED <<rpStep, rpMessages, rpBlocksLeft, rpDone, rpResult, rpCalls,
                   rpStarted, rpMainCalls, rpCompactCalls, rpExecuted, rpRet, rpParts, rpFeedback, fut>>
    /\ UNCHANGED rpOthers

\* repl.py:257-277 and 444-460: the block's exec ended with `outcome` ("ok",
\* "failed", a sub-query error, "DoneSignal" or "FinalVarSignal") after the
\* script wrote `written` characters to stderr: _execute_sync returns, run
\* records the part and goes on to the next block or to the feedback.  The
\* worker keeps the sub-query error that ended its block and what the stderr
\* it returned shows; the future, a local of the scaffold call, is gone.
EndBlock(outcome, written) ==
    LET done == rpDone \/ outcome \in Signals
        left == rpBlocksLeft - 1
        shown == StderrShown(outcome, written)
    IN  /\ wk' = [state |-> "idle", ops |-> 0,
                  err |-> IF outcome \in SubQueryErrors THEN outcome ELSE "",
                  shown |-> shown]
        /\ fut' = NoFuture
        /\ rpDone' = done
        /\ rpResult' = IF outcome = "DoneSignal" THEN "done text"
                       ELSE IF outcome = "FinalVarSignal" THEN "FINAL_VAR(name)"
                       ELSE rpResult
        /\ rpExecuted' = rpExecuted + 1
        /\ rpParts' = Append(rpParts, shown # "none")
        /\ rpBlocksLeft' = left
        /\ rpPc' = IF MoreBlocks(done, left) THEN "blocks" ELSE "feedback"

\* An exception raised into the running script by a scaffold call, which leaves
\* the future as `f`: the script catches it and goes on, or it ends the block
\* with the error `outcome`.
RaiseIntoScript(caught, outcome, f) ==
    IF caught
    THEN /\ wk' = [state |-> "running", ops |-> wk.ops + 1, err |-> "", shown |-> "none"]
         /\ fut' = f
         /\ UNCHANGED <<rpDone, rpResult, rpExecuted, rpParts, rpBlocksLeft, rpPc>>
    ELSE \E written \in ScriptStderrLens : EndBlock(outcome, written)

\* repl.py:148-174: the script calls llm_query: over budget it raises, else the
\* chat coroutine is scheduled on the loop and the worker blocks on the future.
ScriptLlmQuery ==
    /\ wk.state = "running" /\ wk.ops < MaxScriptOps
    /\ \E timeout \in TimeoutArgs, caught \in BOOLEAN :
        IF rpCalls >= LlmQueryBudget
        THEN RaiseIntoScript(caught, "budget exceeded", fut)
        ELSE /\ ~caught
             /\ fut' = [state |-> "scheduled", k |-> 1,
                        timeout |-> EffectiveTimeout(timeout, LlmQueryTimeout), waited |-> 0]
             /\ wk' = [state |-> "waiting", ops |-> wk.ops + 1, err |-> "", shown |-> "none"]
             /\ UNCHANGED <<rpDone, rpResult, rpExecuted, rpParts, rpBlocksLeft, rpPc>>
    /\ UNCHANGED <<rpStep, rpMessages, rpCalls, rpStarted, rpMainCalls, rpCompactCalls, rpRet, rpFeedback>>
    /\ UNCHANGED rpOthers

\* repl.py:193-228: the script calls llm_query_batched with k prompts: too large
\* a batch raises a ValueError, too small a remaining budget the budget error,
\* else the batch is scheduled.
ScriptLlmQueryBatched ==
    /\ wk.state = "running" /\ wk.ops < MaxScriptOps
    /\ \E k \in BatchSizes, timeout \in TimeoutArgs, caught \in BOOLEAN :
        IF k > MAX_BATCH_SIZE
        THEN RaiseIntoScript(caught, "failed", fut)
        ELSE IF rpCalls + k > LlmQueryBudget
        THEN RaiseIntoScript(caught, "budget exceeded", fut)
        ELSE /\ ~caught
             /\ fut' = [state |-> "scheduled", k |-> k,
                        timeout |-> EffectiveTimeout(timeout, BatchedTimeout), waited |-> 0]
             /\ wk' = [state |-> "waiting", ops |-> wk.ops + 1, err |-> "", shown |-> "none"]
             /\ UNCHANGED <<rpDone, rpResult, rpExecuted, rpParts, rpBlocksLeft, rpPc>>
    /\ UNCHANGED <<rpStep, rpMessages, rpCalls, rpStarted, rpMainCalls, rpCompactCalls, rpRet, rpFeedback>>
    /\ UNCHANGED rpOthers

\* repl.py:161-167 and 212-221: the loop runs the scheduled coroutine, which
\* makes its chat calls (one per prompt).
LoopStartSubquery ==
    /\ fut.state = "scheduled" /\ LoopFree
    /\ fut' = [fut EXCEPT !.state = "inflight"]
    /\ rpStarted' = rpStarted + fut.k
    /\ UNCHANGED <<rpPc, rpStep, rpMessages, rpBlocksLeft, rpDone, rpResult, rpCalls,
                   rpMainCalls, rpCompactCalls, rpExecuted, rpRet, rpParts, rpFeedback, wk>>
    /\ UNCHANGED rpOthers

\* The chat calls of the sub-query complete: with responses, or one raised.
SubqueryComplete ==
    /\ fut.state = "inflight"
    /\ \E ok \in BOOLEAN : fut' = [fut EXCEPT !.state = IF ok THEN "ok" ELSE "err"]
    /\ UNCHANGED <<rpPc, rpStep, rpMessages, rpBlocksLeft, rpDone, rpResult, rpCalls,
                   rpStarted, rpMainCalls, rpCompactCalls, rpExecuted, rpRet, rpParts, rpFeedback, wk>>
    /\ UNCHANGED rpOthers

\* Time passes while the worker is blocked in future.result(timeout=...).
Tick ==
    /\ wk.state = "waiting" /\ FuturePending
    /\ fut.timeout # NoTimeout /\ fut.waited < fut.timeout
    /\ fut' = [fut EXCEPT !.waited = @ + 1]
    /\ UNCHANGED <<rpPc, rpStep, rpMessages, rpBlocksLeft, rpDone, rpResult, rpCalls,
                   rpStarted, rpMainCalls, rpCompactCalls, rpExecuted, rpRet, rpParts, rpFeedback, wk>>
    /\ UNCHANGED rpOthers

\* repl.py:168-174 and 222-228: the timeout expires first and future.result
\* raises.  Where the except clause catches it the future is cancelled and a
\* TimeoutError with the scaffold's message is raised into the script; where it
\* does not, the error of future.result goes to the script as it is and the
\* future is left as it was, its chat call running on with nobody to read it.
WorkerTimeout ==
    /\ wk.state = "waiting" /\ FuturePending
    /\ fut.timeout # NoTimeout /\ fut.waited >= fut.timeout
    /\ \E build \in PythonBuilds, caught \in BOOLEAN :
        RaiseIntoScript(caught, "timed out",
                        [fut EXCEPT !.state = IF CatchesFutureTimeout(build)
                                              THEN "cancelled" ELSE "abandoned"])
    /\ UNCHANGED <<rpStep, rpMessages, rpCalls, rpStarted, rpMainCalls, rpCompactCalls, rpRet, rpFeedback>>
    /\ UNCHANGED rpOthers

\* repl.py:169 and 176-185, 223 and 230-244: the future is done: its result is
\* returned to the script and counted, or its exception is raised into the script.
WorkerResult ==
    /\ wk.state = "waiting" /\ fut.state \in {"ok", "err"}
    /\ IF fut.state = "ok"
       THEN /\ rpCalls' = rpCalls + fut.k
            /\ wk' = [wk EXCEPT !.state = "running"]
            /\ fut' = NoFuture
            /\ UNCHANGED <<rpDone, rpResult, rpExecuted, rpParts, rpBlocksLeft, rpPc>>
       ELSE /\ \E caught \in BOOLEAN : RaiseIntoScript(caught, "failed", NoFuture)
            /\ UNCHANGED rpCalls
    /\ UNCHANGED <<rpStep, rpMessages, rpStarted, rpMainCalls, rpCompactCalls, rpRet, rpFeedback>>
    /\ UNCHANGED rpOthers

\* repl.py:106-122 and 260-268: the script calls DONE or FINAL_VAR: the signal
\* ends the block and sets done, unless the script's own handler catches it.
ScriptSignal ==
    /\ wk.state = "running"
    /\ \E sig \in Signals, caught \in BOOLEAN :
        IF caught
        THEN /\ wk.ops < MaxScriptOps
             /\ RaiseIntoScript(TRUE, sig, fut)
        ELSE \E written \in ScriptStderrLens : EndBlock(sig, written)
    /\ UNCHANGED <<rpStep, rpMessages, rpCalls, rpStarted, rpMainCalls, rpCompactCalls,
                   rpRet, rpFeedback>>
    /\ UNCHANGED rpOthers

\* repl.py:257-277: the script ends: normally, by an Exception (the block
\* failed) or by a BaseException that _execute_sync does not catch and that
\* run_in_executor raises in run.
ScriptEnd ==
    /\ wk.state = "running"
    /\ \E outcome \in Outcomes :
        IF outcome # "ok" /\ ~ExecCatches(outcome)
        THEN /\ rpPc' = "raised"
             /\ wk' = NoWorker
             /\ fut' = NoFuture
             /\ UNCHANGED <<rpDone, rpResult, rpExecuted, rpParts, rpBlocksLeft>>
        ELSE \E written \in ScriptStderrLens :
                EndBlock(IF outcome = "ok" THEN "ok" ELSE "failed", written)
    /\ UNCHANGED <<rpStep, rpMessages, rpCalls, rpStarted, rpMainCalls, rpCompactCalls,
                   rpRet, rpFeedback>>
    /\ UNCHANGED rpOthers

\* repl.py:462-483: the feedback message, made of the parts, is appended; when
\* done is set run returns the result with the current step, else the next
\* iteration starts.  The parts and the outcome of the last block are not
\* looked at again.
RpFeedback ==
    /\ rpPc = "feedback"
    /\ rpMessages' = Append(rpMessages, RpMessage("user", "feedback", 8))
    /\ rpFeedback' = FeedbackKind(rpParts)
    /\ rpParts' = <<>>
    /\ wk' = NoWorker
    /\ IF rpDone
       THEN /\ rpRet' = [result |-> rpResult, steps |-> rpStep]
            /\ rpPc' = "returned"
            /\ UNCHANGED rpStep
       ELSE /\ rpStep' = rpStep + 1
            /\ rpPc' = "top"
            /\ UNCHANGED rpRet
    /\ UNCHANGED <<rpBlocksLeft, rpDone, rpResult, rpCalls, rpStarted, rpMainCalls,
                   rpCompactCalls, rpExecuted, fut>>
    /\ UNCHANGED rpOthers

\* The steps of run, of the worker thread and of the timer.
RpProgress ==
    \/ RpExhausted \/ RpLoopTop \/ RpChat \/ RpBlockStart \/ RpFeedback
    \/ ScriptLlmQuery \/ ScriptLlmQueryBatched \/ ScriptSignal \/ ScriptEnd
    \/ LoopStartSubquery \/ Tick \/ WorkerTimeout \/ WorkerResult

RpNext == RpProgress \/ SubqueryComplete

RpIdle ==
    /\ rpPc = "returned" /\ rpStep = 1 /\ rpMessages = <<>> /\ rpBlocksLeft = 0
    /\ rpDone = FALSE /\ rpResult = "" /\ rpCalls = 0 /\ rpStarted = 0
    /\ rpMainCalls = 0 /\ rpCompactCalls = 0 /\ rpExecuted = 0 /\ rpRet = NoRet
    /\ rpParts = <<>> /\ rpFeedback = NoFeedback /\ wk = NoWorker /\ fut = NoFuture

(***************************************************************************)
(* Properties of the REPL agent                                            *)
(***************************************************************************)

\* C3: within one iteration the number of sub-query model calls started through
\* llm_query and llm_query_batched (a batch of K counting as K) never exceeds
\* the per-iteration budget, whatever mix of successful, failed and timed-out
\* sub-queries the blocks make.
C3_SubQueriesWithinBudget == rpStarted <= LlmQueryBudget

\* C8: once a block has set done, no remaining block is executed, no model call
\* of any kind is made, the step does not advance, and run returns the done
\* text with the current step.
C8_DoneStopsRun ==
    /\ [][(rpDone /\ rpPc # "returned") =>
            /\ rpDone' /\ rpResult' = rpResult /\ rpStep' = rpStep
            /\ rpExecuted' = rpExecuted /\ rpMainCalls' = rpMainCalls
            /\ rpStarted' = rpStarted /\ rpCompactCalls' = rpCompactCalls
            /\ rpPc' \in {"feedback", "returned"}]_vars
    /\ [](rpDone /\ rpPc = "returned" =>
            /\ rpRet = [result |-> rpResult, steps |-> rpStep]
            /\ rpResult \in {"done text", "FINAL_VAR(name)"})
    /\ (rpDone ~> rpPc = "returned")

\* A run where DONE in the first of two blocks of the second iteration ended it.
C8_Witness ==
    /\ rpDone /\ rpPc = "returned" /\ rpBlocksLeft > 0
    /\ rpRet.steps = 2 /\ rpExecuted >= 2

C10_NoDeadlock ==
    /\ [](wk.state = "waiting" => LoopFree)
    /\ [](FuturePending => fut.timeout # NoTimeout /\ fut.waited <= fut.timeout)
    /\ (wk.state = "waiting" ~> wk.state # "waiting")

\* A sub-query whose chat call was still in flight when the timeout expired:
\* the future is cancelled and the script, having caught the error, runs on.
C10_Witness ==
    /\ fut.state = "cancelled" /\ fut.waited = fut.timeout
    /\ wk.state = "running" /\ rpPc = "exec"

\* The latest part of results_text_parts has a stderr section.
LastPartHasStderr == Len(rpParts) > 0 /\ rpParts[Len(rpParts)]

\* A block has just ended by a budget-exceeded or timeout error of a sub-query
\* that the script did not catch.
BlockEndedBySubQueryError == wk.state = "idle" /\ wk.err \in SubQueryErrors

\* C17 as stated: a budget-exceeded or timeout error raised by llm_query or
\* llm_query_batched does not escape run: the block ends as failed, the error
\* text appears as stderr in the feedback message given to the model, and the
\* loop continues with the next iteration.
C17_SubQueryErrorShownInFeedback ==
    /\ [](BlockEndedBySubQueryError =>
            /\ rpPc \in {"blocks", "feedback"} /\ ~rpDone
            /\ LastPartHasStderr /\ wk.shown = wk.err)
    /\ [][BlockEndedBySubQueryError /\ rpPc = "feedback" =>
            /\ rpMessages'[Len(rpMessages')].kind = "feedback"
            /\ rpFeedback' = "feedback with stderr"
            /\ rpPc' = "top" /\ rpStep' = rpStep + 1]_vars
    /\ [][BlockEndedBySubQueryError /\ rpPc = "blocks" => rpPc' = "exec"]_vars

\* C17: a budget-exceeded or timeout error raised by llm_query or
\* llm_query_batched and not caught by the script does not escape run: the
\* block ends as failed with a stderr section in its part, which shows the
\* error text unless the block's stderr was longer than MAX_OUTPUT_CHARS and
\* was cut; run goes on with the remaining blocks, and the feedback message
\* with the stderr is appended before the next iteration starts.
C17_SubQueryErrorEndsBlockOnly ==
    /\ [](BlockEndedBySubQueryError =>
            /\ rpPc \in {"blocks", "feedback"} /\ ~rpDone
            /\ LastPartHasStderr /\ wk.shown \in {wk.err, "truncated"})
    /\ [][BlockEndedBySubQueryError /\ rpPc = "feedback" =>
            /\ rpMessages'[Len(rpMessages')].kind = "feedback"
            /\ rpFeedback' = "feedback with stderr"
            /\ rpPc' = "top" /\ rpStep' = rpStep + 1]_vars
    /\ [][BlockEndedBySubQueryError /\ rpPc = "blocks" => rpPc' = "exec"]_vars

\* The second block of a response ended by an uncaught timeout of its
\* sub-query, the error text shown, and the feedback is due.
C17_Witness ==
    /\ BlockEndedBySubQueryError /\ wk.err = "timed out" /\ rpPc = "feedback"
    /\ Len(rpParts) = 2 /\ LastPartHasStderr /\ wk.shown = "timed out"

\* C18: when the timeout of a sub-query expires before the model responds,
\* the pending future is cancelled, the script receives a timeout error, and
\* the late response is never returned to the script.
C18_TimeoutCancelsFuture ==
    [][(wk.state = "waiting" /\ FuturePending /\ wk'.state = "running") =>
            /\ fut'.state = "cancelled"
            /\ rpCalls' = rpCalls]_vars


\* C30: when the response of the main model call holds no code block, the
\* response and exactly one nudge user message are appended, no block is run
\* and no worker is started in that iteration, and the loop goes on with the
\* next step, so that the iteration counts against max_iterations: the main
\* model calls never exceed it.
C30_NoCodeNudgesAndCounts ==
    /\ [][rpPc = "chat" /\ rpPc' = "top" =>
            /\ Len(rpMessages') = Len(rpMessages) + 2
            /\ rpMessages'[Len(rpMessages) + 1] = RpMessage("assistant", "response", ProseLen)
            /\ rpMessages'[Len(rpMessages) + 2] = RpMessage("user", "nudge", 8)
            /\ SubSeq(rpMessages', 1, Len(rpMessages)) = rpMessages
            /\ rpExecuted' = rpExecuted
            /\ wk.state = "idle" /\ wk' = wk
            /\ rpStep' = rpStep + 1
            /\ rpMainCalls' = rpMainCalls + 1]_vars
    /\ [](rpMainCalls <= MaxIterations /\ rpStep <= MaxIterations + 1)

\* Every iteration of the run got a response without code: the run ended at
\* the iteration limit without having run a block.
C30_Witness ==
    /\ rpPc = "returned" /\ rpRet.steps = MaxIterations /\ rpExecuted = 0
    /\ rpMainCalls = MaxIterations
    /\ rpMessages[Len(rpMessages)].kind = "nudge"

(***************************************************************************)
(* Translate engine: translate_extract and translate_observe               *)
(***************************************************************************)

\* Number of extract / observe calls in one behaviour.
MaxTranslateCalls == 2

\* The instruction of a call; observe's None and "" are both the empty text
\* (engine.py:114: `instruction or ""`).
TeInstructions == {<<>>, <<"i">>}

\* response_model.__name__.
ModelNames == {<<"M">>}

\* engine.py:81: _cache_key(instruction, context_text, name, "extract").
ExtractKey(instruction, context_text, name) ==
    JoinLines(<<instruction, context_text, name, <<"extract">>>>)

\* engine.py:114: _cache_key(context_text, instruction or "", "observe").
ObserveKey(context_text, instruction) ==
    JoinLines(<<context_text, instruction, <<"observe">>>>)

TeKeys ==
    {ExtractKey(i, c, n) : i \in TeInstructions, c \in Contexts, n \in ModelNames}
    \cup {ObserveKey(c, i) : i \in TeInstructions, c \in Contexts}

\* Python's None from get_by_key.
TeNoEntry == "<no entry>"

\* What chat_structured returns to translate_extract: an instance whose fields
\* are JSON values, or one with a field json cannot encode (bytes, set, ...).
ExtractValues == {"json value", "bytes value"}

\* engine.py:205: the result of a fallback text that holds no JSON object.
ObservePlaceholder == "Failed to parse observation"

\* storage.py:40: json.dumps(value, default=str): what json cannot encode is
\* stored as its str().
JsonStored(value) == IF value = "bytes value" THEN "str(bytes value)" ELSE value

\* engine.py:85 and 118: model_validate(cached): a stored JSON value is read
\* back as it was; a str() is coerced to another value of the field's type or
\* rejected with a ValidationError.
Validated(stored) ==
    IF stored = "str(bytes value)" THEN {"value of the str", "ValidationError"}
    ELSE {stored}

TeCall(op, instruction, ctx, status, value, modelCalls, wrote, hit) ==
    [op |-> op, instruction |-> instruction, ctx |-> ctx, status |-> status,
     value |-> value, modelCalls |-> modelCalls, wrote |-> wrote, hit |-> hit]

TeNoCall == TeCall("none", <<>>, <<>>, "none", "<none>", 0, FALSE, FALSE)

TranslateInit ==
    /\ teCfg \in [cache : BOOLEAN]
    /\ teCache = [k \in TeKeys |-> TeNoEntry]
    /\ teLast = TeNoCall
    /\ tePrev = TeNoCall
    /\ teCount = 0

\* engine.py:70-103: translate_extract: a hit returns the validated entry; a
\* miss asks the model once, stores the dump of the result and returns it; a
\* failure of chat_structured propagates.
TranslateExtract ==
    /\ teCount < MaxTranslateCalls
    /\ teCount' = teCount + 1
    /\ tePrev' = teLast
    /\ \E instruction \in TeInstructions, ctx \in Contexts, name \in ModelNames,
          structured \in ExtractValues \cup {"raise"}, written \in BOOLEAN :
        LET key == ExtractKey(instruction, ctx, name)
            hit == teCfg.cache /\ teCache[key] # TeNoEntry
            stores == teCfg.cache /\ written
        IN  IF hit
            THEN /\ \E v \in Validated(teCache[key]) :
                        teLast' = TeCall("extract", instruction, ctx,
                                         IF v = "ValidationError" THEN "raised" ELSE "returned",
                                         v, 0, FALSE, TRUE)
                 /\ UNCHANGED teCache
            ELSE IF structured = "raise"
            THEN /\ teLast' = TeCall("extract", instruction, ctx, "raised",
                                     "<exception>", 1, FALSE, FALSE)
                 /\ UNCHANGED teCache
            ELSE /\ teLast' = TeCall("extract", instruction, ctx, "returned",
                                     structured, 1, stores, FALSE)
                 /\ teCache' = IF stores
                               THEN [teCache EXCEPT ![key] = JsonStored(structured)]
                               ELSE teCache
    /\ UNCHANGED teCfg
    /\ UNCHANGED teOthers

\* engine.py:105-144: translate_observe: a hit returns the validated entry; a
\* miss asks the model with chat_structured and, when that fails, with a raw
\* chat whose text is parsed permissively; the result, whatever it is, is
\* stored and returned; a failure of the raw chat propagates.
TranslateObserve ==
    /\ teCount < MaxTranslateCalls
    /\ teCount' = teCount + 1
    /\ tePrev' = teLast
    /\ \E instruction \in TeInstructions, ctx \in Contexts, written \in BOOLEAN,
          structured \in {"observation", "fail"},
          raw \in {"parsed observation", ObservePlaceholder, "raise"} :
        LET key == ObserveKey(ctx, instruction)
            hit == teCfg.cache /\ teCache[key] # TeNoEntry
            stores == teCfg.cache /\ written
            result == IF structured = "fail" THEN raw ELSE structured
            modelCalls == IF structured = "fail" THEN 2 ELSE 1
        IN  IF hit
            THEN /\ \E v \in Validated(teCache[key]) :
                        teLast' = TeCall("observe", instruction, ctx, "returned",
                                         v, 0, FALSE, TRUE)
                 /\ UNCHANGED teCache
            ELSE IF result = "raise"
            THEN /\ teLast' = TeCall("observe", instruction, ctx, "raised",
                                     "<exception>", modelCalls, FALSE, FALSE)
                 /\ UNCHANGED teCache
            ELSE /\ teLast' = TeCall("observe", instruction, ctx, "returned",
                                     result, modelCalls, stores, FALSE)
                 /\ teCache' = IF stores
                               THEN [teCache EXCEPT ![key] = JsonStored(result)]
                               ELSE teCache
    /\ UNCHANGED teCfg
    /\ UNCHANGED teOthers

TranslateNext == TranslateExtract \/ TranslateObserve

TranslateIdle ==
    /\ teCfg = [cache |-> FALSE]
    /\ teCache = [k \in TeKeys |-> TeNoEntry]
    /\ teLast = TeNoCall
    /\ tePrev = TeNoCall
    /\ teCount = 0

\* The latest call repeats the one before it: same primitive, same instruction,
\* same context text, and the earlier one found no entry and returned.
RepeatsReturnedCall ==
    /\ teCfg.cache /\ teCount >= 2
    /\ teLast.op = tePrev.op /\ teLast.instruction = tePrev.instruction
    /\ teLast.ctx = tePrev.ctx
    /\ ~tePrev.hit /\ tePrev.status = "returned"

\* C12: with the cache enabled, two consecutive extract calls (or two
\* consecutive observe calls) with identical instruction and context text
\* return equal values and together issue exactly one model call.
C12_IdempotentWithOneModelCall ==
    RepeatsReturnedCall =>
        /\ teLast.status = "returned"
        /\ teLast.value = tePrev.value
        /\ tePrev.modelCalls + teLast.modelCalls = 1

\* C13: translate_observe and translate_extract insert an entry only for a
\* successful outcome: a call that raised or that produced the 'Failed to parse
\* observation' placeholder inserts none, and a later identical call asks the
\* model again.
C13_EntryOnlyForSuccess ==
    /\ teLast.wrote => (teLast.status = "returned" /\ teLast.value # ObservePlaceholder)
    /\ ( /\ teCfg.cache /\ teCount >= 2
         /\ teLast.op = tePrev.op /\ teLast.instruction = tePrev.instruction
         /\ teLast.ctx = tePrev.ctx /\ ~tePrev.hit
         /\ (tePrev.status = "raised" \/ tePrev.value = ObservePlaceholder) )
       => teLast.modelCalls >= 1

(***************************************************************************)
(* Context builder: ContextBuilder._prune                                  *)
(***************************************************************************)

\* builder.py:62-63, 68-69, 74-75, 80-81: what each reduction keeps.
ModulesKept == 10
FramesKept == 10
DisassemblyKept == 500
VariablesKept == 10

\* "\n... (truncated)" as model_dump_json writes it: the newline takes two
\* characters, the rest fifteen.
TruncationMarkerLen == 17

\* stack_trace is None.
NoStack == -1

\* Serialized length of the parts of a ProcessSnapshot (model_dump_json): the
\* fixed fields, one item of each list, the stack trace without its frames,
\* and null.
PartLen == [fixed |-> 160, register |-> 36, region |-> 90, module |-> 80,
            frame |-> 100, stack |-> 50, variable |-> 60, null |-> 4]

\* The captured snapshots: the number of items of each list (-1 frames: no
\* stack trace) and the length of the disassembly text.
Snapshots ==
    [registers : {2, 40}, regions : {0, 3}, modules : {0, 12},
     frames : {NoStack, 2, 12}, disassembly : {0, 501, 2000}, variables : {0, 12}]

\* max_tokens.
Budgets == {100, 400, 1000}

\* len(snapshot.model_dump_json()).
SerializedLength(snap) ==
    PartLen.fixed
    + snap.registers * PartLen.register
    + snap.regions * PartLen.region
    + snap.modules * PartLen.module
    + (IF snap.frames = NoStack THEN PartLen.null
       ELSE PartLen.stack + snap.frames * PartLen.frame)
    + snap.disassembly
    + snap.variables * PartLen.variable

\* ContextBuilder._estimate_tokens.
SnapshotTokens(snap) == SerializedLength(snap) \div 4

\* builder.py:49 and the check after each reduction.
WithinBudget(snap, budget) == SnapshotTokens(snap) <= budget

\* One reduction was applied: the estimates around it.
Reduction(step, before, after) ==
    [step |-> step, before |-> SnapshotTokens(before), after |-> SnapshotTokens(after)]

PruneInit ==
    /\ pbSnap \in Snapshots
    /\ pbBudget \in Budgets
    /\ pbPc = "start"
    /\ pbTrace = <<>>

\* One reduction step of _prune: when it applies, `reduced` replaces the
\* snapshot and _prune returns if the estimate is within the budget (the last
\* step returns in any case); when it does not apply the next step is tried.
PruneStep(step, next, applies, reduced, last) ==
    /\ pbSnap' = IF applies THEN reduced ELSE pbSnap
    /\ pbTrace' = IF applies THEN Append(pbTrace, Reduction(step, pbSnap, reduced))
                  ELSE pbTrace
    /\ pbPc' = IF last \/ (applies /\ WithinBudget(reduced, pbBudget))
               THEN "returned" ELSE next
    /\ UNCHANGED pbBudget
    /\ UNCHANGED pbOthers

\* builder.py:48-53: a snapshot within the budget is returned as it is.
PruneCheck ==
    /\ pbPc = "start"
    /\ pbPc' = IF WithinBudget(pbSnap, pbBudget) THEN "returned" ELSE "memory_regions"
    /\ UNCHANGED <<pbSnap, pbBudget, pbTrace>>
    /\ UNCHANGED pbOthers

\* builder.py:56-59.
PruneMemoryRegions ==
    /\ pbPc = "memory_regions"
    /\ PruneStep("memory_regions", "modules", pbSnap.regions > 0,
                 [pbSnap EXCEPT !.regions = 0], FALSE)

\* builder.py:62-65.
PruneModules ==
    /\ pbPc = "modules"
    /\ PruneStep("modules", "frames", pbSnap.modules > ModulesKept,
                 [pbSnap EXCEPT !.modules = ModulesKept], FALSE)

\* builder.py:68-71.
PruneFrames ==
    /\ pbPc = "frames"
    /\ PruneStep("frames", "disassembly",
                 pbSnap.frames # NoStack /\ pbSnap.frames > FramesKept,
                 [pbSnap EXCEPT !.frames = FramesKept], FALSE)

\* builder.py:74-77: disassembly[:500] + "\n... (truncated)".
PruneDisassembly ==
    /\ pbPc = "disassembly"
    /\ PruneStep("disassembly", "variables", pbSnap.disassembly > DisassemblyKept,
                 [pbSnap EXCEPT !.disassembly = DisassemblyKept + TruncationMarkerLen], FALSE)

\* builder.py:80-83.
PruneVariables ==
    /\ pbPc = "variables"
    /\ PruneStep("variables", "returned", pbSnap.variables > VariablesKept,
                 [pbSnap EXCEPT !.variables = VariablesKept], TRUE)

PruneNext ==
    \/ PruneCheck \/ PruneMemoryRegions \/ PruneModules
    \/ PruneFrames \/ PruneDisassembly \/ PruneVariables

PruneIdle ==
    /\ pbSnap = [registers |-> 2, regions |-> 0, modules |-> 0, frames |-> NoStack,
                 disassembly |-> 0, variables |-> 0]
    /\ pbBudget = 1000
    /\ pbPc = "returned"
    /\ pbTrace = <<>>

\* C14: each reduction applied yields an estimate no greater than the estimate
\* before it, and no reduction is applied once the estimate is within the
\* budget.
C14_PruningMonotoneAndStops ==
    /\ \A i \in 1..Len(pbTrace) : pbTrace[i].after <= pbTrace[i].before
    /\ \A i \in 1..Len(pbTrace) : pbTrace[i].before > pbBudget

\* C15: the snapshot _prune returns has an estimate no greater than the budget.
C15_ReturnedWithinBudget ==
    pbPc = "returned" => WithinBudget(pbSnap, pbBudget)

(***************************************************************************)
(* Session lifecycle: AsyncSession and Debugger                            *)
(***************************************************************************)

\* Number of operations made on one session.
MaxSessionOps == 4

\* config.agent.agentic_provider: unset, a supported one, an unsupported one.
AgenticProviders == {"", "claude-code", "other"}

\* The primitives of a session and the operations of its debugger.
Primitives == {"act", "extract", "observe", "agent", "repl_agent"}
DebuggerOps == {"destroy", "execute_command", "create_target", "attach"}

\* One operation: what it was, the session it found (whether it had a process,
\* whether its debugger was destroyed), how it ended, the model calls and
\* script executions it made, and whether it reached the SBDebugger.
SeCall(op, hadProcess, destroyed, outcome, modelCalls, executions, touched) ==
    [op |-> op, hadProcess |-> hadProcess, destroyed |-> destroyed, outcome |-> outcome,
     modelCalls |-> modelCalls, executions |-> executions, touched |-> touched]

SeNoCall == SeCall("none", FALSE, FALSE, "returned", 0, 0, FALSE)

\* session.py:98-99: the handlers built by the constructor; the act handler
\* waits for a process.
InitialHandlers == [act |-> FALSE, extract |-> TRUE, observe |-> TRUE]

\* A property that hands out None.
ProcessProperty_Unchecked(process) == "ok"

\* session.py:137-141, the `process` property: RuntimeError without a process.
ProcessProperty(process) == IF process = "none" THEN "RuntimeError" ELSE "ok"

\* session.py:143-147, the `target` property.
TargetProperty(target) == IF target THEN "ok" ELSE "RuntimeError"

\* An end that lets the failure of kill through.
EndCatches_Nothing(outcome) == FALSE

\* session.py:278-281: `except Exception: pass` around self._process.kill().
EndCatches(outcome) == outcome = "RuntimeError"

\* A method called on self._sb: after destroy it is None, which has no methods.
SbCall(sb) == IF sb = "none" THEN "AttributeError" ELSE "ok"

\* session.py:33-99 and debugger.py:38-44: a new session with a live debugger.
SessionInit ==
    /\ seSb = "live"
    /\ seTarget = FALSE
    /\ seProcess = "none"
    /\ seHandlers = InitialHandlers
    /\ seLast = SeNoCall
    /\ seCount = 0

\* The next operation is counted and recorded.
Record(call) ==
    /\ seCount < MaxSessionOps
    /\ seCount' = seCount + 1
    /\ seLast' = call

\* session.py:114-123: start: create_target, launch, _init_handlers; each
\* failure leaves what was assigned before it.
SessionStart ==
    /\ \E created \in BOOLEAN, launched \in BOOLEAN :
        LET outcome == IF SbCall(seSb) # "ok" THEN SbCall(seSb)
                       ELSE IF created /\ launched THEN "returned" ELSE "RuntimeError"
            hasTarget == SbCall(seSb) = "ok" /\ created
        IN  /\ Record(SeCall("start", seProcess # "none", seSb = "none", outcome, 0, 0,
                             seSb # "none"))
            /\ seTarget' = (seTarget \/ hasTarget)
            /\ seProcess' = IF outcome = "returned" THEN "alive" ELSE seProcess
            /\ seHandlers' = IF outcome = "returned"
                             THEN [seHandlers EXCEPT !.act = TRUE] ELSE seHandlers
    /\ UNCHANGED seSb
    /\ UNCHANGED seOthers

\* session.py:125-129 and debugger.py:92-116: attach: target and process are
\* assigned together, when debugger.attach returns.
SessionAttach ==
    /\ \E attached \in BOOLEAN :
        LET outcome == IF SbCall(seSb) # "ok" THEN SbCall(seSb)
                       ELSE IF attached THEN "returned" ELSE "RuntimeError"
        IN  /\ Record(SeCall("session attach", seProcess # "none", seSb = "none", outcome,
                             0, 0, seSb # "none"))
            /\ seTarget' = (seTarget \/ outcome = "returned")
            /\ seProcess' = IF outcome = "returned" THEN "alive" ELSE seProcess
            /\ seHandlers' = IF outcome = "returned"
                             THEN [seHandlers EXCEPT !.act = TRUE] ELSE seHandlers
    /\ UNCHANGED seSb
    /\ UNCHANGED seOthers

\* What a primitive raises before its handler runs, "ok" when nothing.
\* session.py:151-152 (act), 157 and 161 (extract, observe: self.process is an
\* argument of the handler call), 179-194 and 233-236 (agent: the agentic
\* client is created first), 249-253 (repl_agent: self.target, self.process).
Precheck(op, provider) ==
    CASE op = "act" -> IF seHandlers.act THEN ProcessProperty(seProcess) ELSE "RuntimeError"
      [] op \in {"extract", "observe"} -> ProcessProperty(seProcess)
      [] op = "agent" -> IF provider = "other" THEN "ValueError"
                         ELSE ProcessProperty(seProcess)
      [] op = "repl_agent" -> IF TargetProperty(seTarget) # "ok"
                              THEN TargetProperty(seTarget)
                              ELSE ProcessProperty(seProcess)

\* session.py:149-257: a primitive: it raises before anything runs, or its
\* handler runs, calling the model and executing scripts, and returns or raises.
SessionPrimitive ==
    /\ \E op \in Primitives, provider \in AgenticProviders,
          modelCalls \in 0..1, executions \in 0..1, fails \in BOOLEAN :
        LET pre == Precheck(op, provider)
        IN  /\ provider # "" => op = "agent"
            /\ pre # "ok" => modelCalls = 0 /\ executions = 0 /\ ~fails
            /\ op \in {"extract", "observe"} => executions = 0
            /\ Record(SeCall(op, seProcess # "none", seSb = "none",
                             IF pre # "ok" THEN pre
                             ELSE IF fails THEN "Exception" ELSE "returned",
                             modelCalls, executions, FALSE))
    /\ UNCHANGED <<seSb, seTarget, seProcess, seHandlers>>
    /\ UNCHANGED seOthers

\* session.py:269-286: end: the process is killed (a failure is ignored), the
\* process, the target and the act handler are dropped, the debugger destroyed.
SessionEnd ==
    /\ \E kill \in {"ok", "RuntimeError"} :
        LET raised == seProcess # "none" /\ kill # "ok" /\ ~EndCatches(kill)
        IN  /\ seProcess = "none" => kill = "ok"
            /\ Record(SeCall("end", seProcess # "none", seSb = "none",
                             IF raised THEN kill
                             ELSE IF kill = "ok" THEN "returned" ELSE "returned, kill failed",
                             0, 0, ~raised /\ seSb # "none"))
            /\ seProcess' = IF raised THEN seProcess ELSE "none"
            /\ seTarget' = IF raised THEN seTarget ELSE FALSE
            /\ seHandlers' = IF raised THEN seHandlers ELSE [seHandlers EXCEPT !.act = FALSE]
            /\ seSb' = IF raised THEN seSb ELSE "none"
    /\ UNCHANGED seOthers

\* debugger.py:171-175: destroy: once.
DebuggerDestroy ==
    /\ Record(SeCall("destroy", seProcess # "none", seSb = "none", "returned", 0, 0,
                     seSb # "none"))
    /\ seSb' = "none"
    /\ UNCHANGED <<seTarget, seProcess, seHandlers>>
    /\ UNCHANGED seOthers

\* debugger.py:149-169, 67-90 and 92-116: execute_command, create_target and
\* attach on the session's debugger: each starts with a method call on
\* self._sb; create_target and attach raise RuntimeError when LLDB fails.
DebuggerOperation ==
    /\ \E op \in DebuggerOps \ {"destroy"}, fails \in BOOLEAN :
        /\ fails => op # "execute_command" /\ SbCall(seSb) = "ok"
        /\ Record(SeCall(op, seProcess # "none", seSb = "none",
                         IF SbCall(seSb) # "ok" THEN SbCall(seSb)
                         ELSE IF fails THEN "RuntimeError" ELSE "returned",
                         0, 0, seSb # "none"))
    /\ UNCHANGED <<seSb, seTarget, seProcess, seHandlers>>
    /\ UNCHANGED seOthers

SessionNext ==
    \/ SessionStart \/ SessionAttach \/ SessionPrimitive \/ SessionEnd
    \/ DebuggerDestroy \/ DebuggerOperation

SessionIdle ==
    /\ seSb = "none" /\ seTarget = FALSE /\ seProcess = "none"
    /\ seHandlers = InitialHandlers /\ seLast = SeNoCall /\ seCount = 0

\* C22: a primitive called on a session that has no process (before start or
\* attach, after a failed start, after end) raises an error to the caller and
\* makes no model call and no script execution.
C22_NoProcessRaises ==
    (seLast.op \in Primitives /\ ~seLast.hadProcess) =>
        /\ seLast.outcome \in {"RuntimeError", "ValueError"}
        /\ seLast.modelCalls = 0 /\ seLast.executions = 0

\* repl_agent called after end on a session that had been started.
C22_Witness ==
    /\ seLast.op = "repl_agent" /\ ~seLast.hadProcess /\ seLast.destroyed
    /\ seLast.outcome = "RuntimeError" /\ seCount >= 3

C24_DestroyedDebuggerNoOp ==
    (seLast.op \in DebuggerOps /\ seLast.destroyed) =>
        /\ seLast.outcome = "returned"
        /\ ~seLast.touched

(***************************************************************************)
(* Breakpoints: the callback registry _BP_CALLBACKS                        *)
(***************************************************************************)

\* The breakpoints of the target (SBBreakpoint ids).
BreakpointIds == {1, 2}

\* Number of Breakpoint objects created.
MaxFacades == 3

Facades == 1..MaxFacades

\* No breakpoint, no Breakpoint object.
NoBreakpoint == 0

\* breakpoint.py:119 and 141: the key of the registry is id(self), the
\* identity of the Breakpoint object.
RegistryKey(facade) == facade

\* The Breakpoint objects made so far.
Created == {f \in Facades : bkFacade[f] # NoBreakpoint}

\* The breakpoints that have an entry in the registry, by the object it was
\* registered through.
Registered == {bkFacade[k] : k \in bkRegistry}

\* No breakpoint, no object, an empty registry.
BreakpointInit ==
    /\ bkState = [b \in BreakpointIds |-> "none"]
    /\ bkBody = [b \in BreakpointIds |-> NoBreakpoint]
    /\ bkFacade = [f \in Facades |-> NoBreakpoint]
    /\ bkRegistry = {}

\* A new Breakpoint object around breakpoint b.
Wrap(b) ==
    LET f == Cardinality(Created) + 1
    IN  /\ f \in Facades
        /\ bkFacade' = [bkFacade EXCEPT ![f] = b]

\* target.py:145-195: breakpoint_create_by_name / by_address / by_regex: a new
\* breakpoint, returned in a new Breakpoint object.
BreakpointCreate ==
    /\ \E b \in BreakpointIds :
        /\ bkState[b] = "none"
        /\ bkState' = [bkState EXCEPT ![b] = "live"]
        /\ Wrap(b)
    /\ UNCHANGED <<bkBody, bkRegistry>>
    /\ UNCHANGED bkOthers

\* target.py:80-89: target.breakpoints builds a new Breakpoint object for every
\* breakpoint of the target; the caller keeps the one for b.
TargetBreakpoints ==
    /\ \E b \in BreakpointIds :
        /\ bkState[b] = "live"
        /\ Wrap(b)
    /\ UNCHANGED <<bkState, bkBody, bkRegistry>>
    /\ UNCHANGED bkOthers

\* breakpoint.py:105-126: set_callback on a Breakpoint object of a live
\* breakpoint: the callback is registered under the object's key and the
\* dispatch body naming that key is installed on the breakpoint.
BreakpointSetCallback ==
    /\ \E f \in Created :
        /\ bkState[bkFacade[f]] = "live"
        /\ bkRegistry' = bkRegistry \cup {RegistryKey(f)}
        /\ bkBody' = [bkBody EXCEPT ![bkFacade[f]] = RegistryKey(f)]
    /\ UNCHANGED <<bkState, bkFacade>>
    /\ UNCHANGED bkOthers

\* breakpoint.py:136-144: delete through a Breakpoint object: the entry under
\* the object's key is popped and the breakpoint removed from its target.
BreakpointDelete ==
    /\ \E f \in Created :
        /\ bkRegistry' = bkRegistry \ {RegistryKey(f)}
        /\ bkState' = [bkState EXCEPT ![bkFacade[f]] = "deleted"]
        /\ bkBody' = [bkBody EXCEPT ![bkFacade[f]] = NoBreakpoint]
    /\ UNCHANGED bkFacade
    /\ UNCHANGED bkOthers

BreakpointNext ==
    \/ BreakpointCreate \/ TargetBreakpoints \/ BreakpointSetCallback \/ BreakpointDelete

BreakpointIdle ==
    /\ bkState = [b \in BreakpointIds |-> "none"]
    /\ bkBody = [b \in BreakpointIds |-> NoBreakpoint]
    /\ bkFacade = [f \in Facades |-> NoBreakpoint]
    /\ bkRegistry = {}

\* C25: after any sequence of set-callback and delete operations the registry
\* holds an entry exactly for the breakpoints that have a callback set and have
\* not been deleted: the entry is found and removed whichever Breakpoint
\* object is used to reach the breakpoint.
C25_RegistryMatchesLiveCallbacks ==
    \A b \in BreakpointIds :
        b \in Registered <=> (bkState[b] = "live" /\ bkBody[b] # NoBreakpoint)

(***************************************************************************)
(* Instrumented model client: InstrumentedLLMClient                        *)
(***************************************************************************)

\* Number of calls made through the client.
MaxInstrumentedCalls == 3

ClientMethods == {"chat", "chat_structured"}

\* How the provider call ends: it returns, raises an Exception with or without
\* a message, or the awaiting task is cancelled (asyncio.CancelledError, a
\* BaseException).
ProviderOutcomes == {"returned", "Exception('m')", "Exception()", "CancelledError"}

\* event.error of an event without error.
NoError == "None"

\* events.py:61 and 84: str(exc).
ErrorText(outcome) ==
    CASE outcome = "Exception('m')" -> "m"
      [] outcome = "Exception()" -> ""
      [] OTHER -> NoError

\* A client that lets every failure pass without an end event.
ClientCatches_Nothing(outcome) == FALSE

\* events.py:59 and 82: `except Exception as exc`.
ClientCatches(outcome) == outcome \in {"Exception('m')", "Exception()"}

\* What the callback receives, and the provider call, in order.
IcEntry(call, what, method, error) ==
    [call |-> call, what |-> what, method |-> method, error |-> error]

\* The entries of one call.
EntriesOf(call) == SelectSeq(icLog, LAMBDA e : e.call = call)

InstrumentedInit ==
    /\ icLog = <<>>
    /\ icPc = "idle"
    /\ icMethod = "chat"
    /\ icCalls = 0
    /\ icOutcome = <<>>

\* events.py:53-55 and 76-78: the start event goes to the callback before the
\* provider is called.
InstrumentedBegin ==
    /\ icPc = "idle" /\ icCalls < MaxInstrumentedCalls
    /\ \E method \in ClientMethods :
        /\ icMethod' = method
        /\ icLog' = Append(icLog, IcEntry(icCalls + 1, "start", method, NoError))
    /\ icCalls' = icCalls + 1
    /\ icPc' = "provider"
    /\ UNCHANGED icOutcome
    /\ UNCHANGED icOthers

\* events.py:57-68 and 80-90: the provider call: when it returns, or raises
\* what the handler catches, the end event goes to the callback, with the
\* error text in the second case, and the exception is raised again; anything
\* else passes through.
InstrumentedProvider ==
    /\ icPc = "provider"
    /\ \E outcome \in ProviderOutcomes :
        LET called == Append(icLog, IcEntry(icCalls, "provider", icMethod, NoError))
            ends == outcome = "returned" \/ ClientCatches(outcome)
        IN  /\ icLog' = IF ends
                        THEN Append(called, IcEntry(icCalls, "end", icMethod, ErrorText(outcome)))
                        ELSE called
            /\ icOutcome' = Append(icOutcome, outcome)
    /\ icPc' = "idle"
    /\ UNCHANGED <<icMethod, icCalls>>
    /\ UNCHANGED icOthers

InstrumentedNext == InstrumentedBegin \/ InstrumentedProvider

InstrumentedIdle ==
    /\ icLog = <<>> /\ icPc = "idle" /\ icMethod = "chat"
    /\ icCalls = MaxInstrumentedCalls /\ icOutcome = <<>>

\* The whats of the entries of one call, in order.
WhatsOf(call) == [i \in 1..Len(EntriesOf(call)) |-> EntriesOf(call)[i].what]

\* C26 as stated: for every call made through the instrumented client exactly
\* one start event is emitted before the provider is called and exactly one
\* end event after it, also when the provider call raises; the end event then
\* carries the error and the exception reaches the caller.
C26_StartAndEndAroundEveryCall ==
    \A c \in 1..Len(icOutcome) :
        /\ WhatsOf(c) = <<"start", "provider", "end">>
        /\ icOutcome[c] # "returned" => EntriesOf(c)[3].error # NoError

\* C26: for every call made through the instrumented client exactly one start
\* event is emitted before the provider is called; when the provider returns
\* or raises an Exception exactly one end event follows, which in the second
\* case carries str(exception), and the exception reaches the caller; when the
\* call ends by a BaseException that is not an Exception (a cancelled task) no
\* end event is emitted and that exception reaches the caller.
C26_EndEventUnlessCancelled ==
    \A c \in 1..Len(icOutcome) :
        IF icOutcome[c] = "CancelledError"
        THEN WhatsOf(c) = <<"start", "provider">>
        ELSE /\ WhatsOf(c) = <<"start", "provider", "end">>
             /\ EntriesOf(c)[3].error = ErrorText(icOutcome[c])
             /\ EntriesOf(c)[3].method = EntriesOf(c)[1].method
             /\ (EntriesOf(c)[3].error = NoError) <=> (icOutcome[c] = "returned")

\* A chat_structured call whose provider raised, after a call that returned.
C26_Witness ==
    /\ Len(icOutcome) = 2 /\ icPc = "idle"
    /\ icOutcome[1] = "returned" /\ icOutcome[2] = "Exception('m')"
    /\ EntriesOf(2)[3].method = "chat_structured" /\ EntriesOf(2)[3].error = "m"

(***************************************************************************)
(* Variable expansion: Frame._to_variable                                  *)
(***************************************************************************)

\* max_depth, the default of _to_variable.
MaxDepth == 3

\* The cap on the children expanded per variable.
ChildCap == 32

\* Number of elements of the large array.
ArrayLen == 40

\* The values converted: a scalar, a pointer to a list node (one synthetic
\* child), a list node (its next pointer, which may point back to the node
\* itself, and a scalar), a pointer whose pointee cannot be read (its child is
\* invalid), an array, and a structure holding two pointers.
SbValues == {"scalar", "node*", "node", "bad*", "invalid", "array", "pair"}

\* sb_val.GetChildAtIndex(i) for every i below GetNumChildren().
ChildrenOf(val) ==
    CASE val = "node*" -> <<"node">>
      [] val = "node" -> <<"node*", "scalar">>
      [] val = "bad*" -> <<"invalid">>
      [] val = "array" -> [i \in 1..ArrayLen |-> "scalar"]
      [] val = "pair" -> <<"node*", "bad*">>
      [] OTHER -> <<>>

\* frame.py:204-206: a pointer with exactly one child.
IsPointerWithOneChild(val) == val \in {"node*", "bad*"}

\* frame.py:207-209: Dereference, used when the pointee is valid and has no error.
Dereference(val) == IF val = "node*" THEN "node" ELSE val

\* An expansion without a cap.
ExpandedChildren_All(n) == n

\* frame.py:215: range(min(num_children, 32)).
ExpandedChildren(n) == IF n < ChildCap THEN n ELSE ChildCap

\* One call of _to_variable: the value, _depth, the value whose children are
\* taken, the number of Dereference calls made, the number of children to
\* expand (frame.py:212-215) and the index of the next one.
VarCall(val, depth) ==
    LET derefs == IF IsPointerWithOneChild(val) THEN 1 ELSE 0
        deref == IF IsPointerWithOneChild(val) THEN Dereference(val) ELSE val
    IN  [val |-> val, depth |-> depth, deref |-> deref, derefs |-> derefs,
         n |-> IF depth < MaxDepth THEN ExpandedChildren(Len(ChildrenOf(deref))) ELSE 0,
         i |-> 0]

\* frame.py:101-139: the variables of a frame are converted from depth 0.
VariablesInit ==
    /\ \E root \in SbValues \ {"invalid"} : veStack = <<VarCall(root, 0)>>
    /\ veBuilt = 0
    /\ veDeepest = 0

\* frame.py:215-220: the next child is taken and, when valid, converted by a
\* recursive call one level down.
VariableExpandChild ==
    /\ Len(veStack) > 0
    /\ LET top == veStack[Len(veStack)]
           child == ChildrenOf(top.deref)[top.i + 1]
           rest == [veStack EXCEPT ![Len(veStack)].i = top.i + 1]
       IN  /\ top.i < top.n
           /\ veStack' = IF child # "invalid"
                         THEN Append(rest, VarCall(child, top.depth + 1)) ELSE rest
           /\ veDeepest' = IF child # "invalid" /\ top.depth + 1 > veDeepest
                           THEN top.depth + 1 ELSE veDeepest
    /\ UNCHANGED veBuilt
    /\ UNCHANGED veOthers

\* frame.py:222-229: all children are done: the Variable is returned.
VariableReturn ==
    /\ Len(veStack) > 0
    /\ veStack[Len(veStack)].i = veStack[Len(veStack)].n
    /\ veStack' = SubSeq(veStack, 1, Len(veStack) - 1)
    /\ veBuilt' = veBuilt + 1
    /\ UNCHANGED veDeepest
    /\ UNCHANGED veOthers

VariablesNext == VariableExpandChild \/ VariableReturn

VariablesIdle == veStack = <<>> /\ veBuilt = 0 /\ veDeepest = 0

\* C27: variable expansion always terminates: no variable is expanded below
\* the configured depth, at most 32 children are expanded per variable, and a
\* pointer variable with exactly one synthetic child is dereferenced at most
\* once per conversion call.
C27_ExpansionBounded ==
    /\ [](\A k \in 1..Len(veStack) :
            /\ veStack[k].depth <= MaxDepth
            /\ veStack[k].depth = MaxDepth => veStack[k].n = 0
            /\ veStack[k].i <= ChildCap
            /\ veStack[k].derefs <= 1
            /\ veStack[k].derefs = 1 => IsPointerWithOneChild(veStack[k].val))
    /\ [](veDeepest <= MaxDepth)
    /\ <>(veStack = <<>>)

\* The conversion of a pointer into a cyclic list is over, having gone down to
\* the configured depth.
C27_Witness ==
    /\ veStack = <<>> /\ veDeepest = MaxDepth /\ veBuilt > MaxDepth

(***************************************************************************)
(* REPL agent across runs: the persistent history of REPLAgent.run         *)
(***************************************************************************)

\* Number of run() calls made on one agent.
MaxRuns == 2

\* What one iteration comes to: the model call raises, the response has no
\* code block, its blocks run without DONE, one of its blocks calls DONE.
IterationOutcomes == {"raises", "no code", "code", "done"}

\* No model call made yet in this run.
NoFirst == [kind |-> "none", messages |-> <<>>]

\* repl.py:392-395: the fresh system+user pair.
FreshPair == <<RpMessage("system", "system", 8), RpMessage("user", "begin", 8)>>

\* repl.py:390: the "New task" user message.
NewTask == RpMessage("user", "new task", 8)

\* repl.py:346-358: the one message of the summarisation call, made of the
\* messages between the first and the last four.
SummaryRequest(messages) ==
    <<RpMessage("user", "summarize", ContentLength(SubSeq(messages, 2, Len(messages) - 4)))>>

\* An agent that never reloads its history.
RestoresHistory_Never(isPersistent, history) == FALSE

\* repl.py:388: `if self.persistent and self._message_history`.
RestoresHistory(isPersistent, history) == isPersistent /\ history # <<>>

\* repl.py:474-475 and 486-487: the history is saved in persistent mode only.
SavedHistory(isPersistent, history, messages) == IF isPersistent THEN messages ELSE history

\* repl.py:136-139 and 86-88: a new agent, persistent or not.
PersistInit ==
    /\ pnPersistent \in BOOLEAN
    /\ pnHistory = <<>>
    /\ pnMessages = <<>>
    /\ pnPc = "idle"
    /\ pnStep = 1
    /\ pnDone = FALSE
    /\ pnResult = ""
    /\ pnRun = 0
    /\ pnFirst = NoFirst
    /\ pnBefore = <<>>
    /\ pnTopCalls = 0

\* repl.py:370-395: run() resets the per-run state and builds the messages.
PersistRunStart ==
    /\ pnPc = "idle" /\ pnRun < MaxRuns
    /\ pnRun' = pnRun + 1
    /\ pnDone' = FALSE
    /\ pnResult' = ""
    /\ pnMessages' = IF RestoresHistory(pnPersistent, pnHistory)
                     THEN Append(pnHistory, NewTask) ELSE FreshPair
    /\ pnStep' = 1
    /\ pnFirst' = NoFirst
    /\ pnPc' = "top"
    /\ UNCHANGED <<pnPersistent, pnHistory, pnBefore, pnTopCalls>>
    /\ UNCHANGED pnOthers

\* repl.py:397-402: the top of an iteration: the history is compacted when its
\* estimate exceeds the threshold, by one summarisation call, which may raise.
PersistLoopTop ==
    /\ pnPc = "top" /\ RpLoopRuns(pnStep)
    /\ \E raises \in BOOLEAN :
        LET compacts == EstimateTokens(pnMessages) > CompactionThreshold
            calls == compacts /\ CompactionCalls(pnMessages)
        IN  /\ raises => calls
            /\ pnFirst' = IF calls /\ pnFirst = NoFirst
                          THEN [kind |-> "summary", messages |-> SummaryRequest(pnMessages)]
                          ELSE pnFirst
            /\ pnMessages' = IF raises THEN <<>>
                             ELSE IF compacts THEN CompactHistory(pnMessages, SummaryLen)
                             ELSE pnMessages
            /\ pnPc' = IF raises THEN "idle" ELSE "chat"
            /\ pnBefore' = IF raises THEN <<>> ELSE pnMessages
            /\ pnTopCalls' = IF calls /\ ~raises THEN 1 ELSE 0
    /\ UNCHANGED <<pnPersistent, pnHistory, pnStep, pnDone, pnResult, pnRun>>
    /\ UNCHANGED pnOthers

\* repl.py:416-483: the main model call of an iteration and what follows it:
\* the response and the nudge or the feedback are appended; after DONE the
\* history is saved and run returns.
PersistIteration ==
    /\ pnPc = "chat"
    /\ pnFirst' = IF pnFirst = NoFirst THEN [kind |-> "main", messages |-> pnMessages]
                  ELSE pnFirst
    /\ \E outcome \in IterationOutcomes :
        LET after == IF outcome = "no code"
                     THEN pnMessages \o <<RpMessage("assistant", "response", ProseLen),
                                          RpMessage("user", "nudge", 8)>>
                     ELSE pnMessages \o <<RpMessage("assistant", "response", CodeLen),
                                          RpMessage("user", "feedback", 8)>>
        IN  CASE outcome = "raises" ->
                   /\ pnPc' = "idle" /\ pnMessages' = <<>>
                   /\ UNCHANGED <<pnHistory, pnStep, pnDone, pnResult>>
              [] outcome = "done" ->
                   /\ pnDone' = TRUE /\ pnResult' = "result"
                   /\ pnHistory' = SavedHistory(pnPersistent, pnHistory, after)
                   /\ pnPc' = "idle" /\ pnMessages' = <<>>
                   /\ UNCHANGED pnStep
              [] OTHER ->
                   /\ pnMessages' = after
                   /\ pnStep' = pnStep + 1
                   /\ pnPc' = "top"
                   /\ UNCHANGED <<pnHistory, pnDone, pnResult>>
    /\ pnBefore' = <<>>
    /\ pnTopCalls' = 0
    /\ UNCHANGED <<pnPersistent, pnRun>>
    /\ UNCHANGED pnOthers

\* repl.py:485-494: the iterations are used up: the history is saved and run
\* returns the max-reached result.
PersistExhausted ==
    /\ pnPc = "top" /\ ~RpLoopRuns(pnStep)
    /\ pnHistory' = SavedHistory(pnPersistent, pnHistory, pnMessages)
    /\ pnMessages' = <<>>
    /\ pnPc' = "idle"
    /\ UNCHANGED <<pnPersistent, pnStep, pnDone, pnResult, pnRun, pnFirst, pnBefore, pnTopCalls>>
    /\ UNCHANGED pnOthers

PersistNext == PersistRunStart \/ PersistLoopTop \/ PersistIteration \/ PersistExhausted

PersistIdle ==
    /\ pnPersistent = FALSE /\ pnHistory = <<>> /\ pnMessages = <<>> /\ pnPc = "idle"
    /\ pnStep = 1 /\ pnDone = FALSE /\ pnResult = "" /\ pnRun = MaxRuns /\ pnFirst = NoFirst
    /\ pnBefore = <<>> /\ pnTopCalls = 0

\* C28 (as stated): in a later run of a persistent agent with a saved history,
\* the message list of the first model call is exactly that history followed
\* by the new-task message.
C28_FirstCallSendsSavedHistory ==
    pnPersistent /\ pnPc \in {"top", "chat"} /\ pnHistory # <<>> /\ pnFirst # NoFirst
        => pnFirst.messages = Append(pnHistory, NewTask)

\* C28: every run starts with the done flag and the result cleared and with
\* the saved history followed by the new-task message (persistent agent with
\* a saved history) or with a fresh system+user pair (otherwise); the first
\* model call of the run sends exactly that list, unless the list holds more
\* than 5 messages and its estimate exceeds the compaction threshold: then
\* the first model call is the summarisation call of the compaction.
C28_RunStartsFromSavedHistory ==
    LET start == IF pnPersistent /\ pnHistory # <<>>
                 THEN Append(pnHistory, NewTask) ELSE FreshPair
        summarised == EstimateTokens(start) > CompactionThreshold /\ Len(start) > 5
    IN  /\ pnPc = "top" /\ pnStep = 1 => ~pnDone /\ pnResult = "" /\ pnMessages = start
        /\ pnPc \in {"top", "chat"} /\ pnFirst # NoFirst =>
              IF summarised THEN pnFirst = [kind |-> "summary", messages |-> SummaryRequest(start)]
              ELSE pnFirst = [kind |-> "main", messages |-> start]
        /\ ~pnPersistent => pnHistory = <<>>

\* The second run of a persistent agent has made its first model call with
\* the history the first run saved after DONE, followed by the new task.
C28_Witness ==
    /\ pnPersistent /\ pnRun = 2 /\ pnDone = FALSE /\ pnPc = "top" /\ pnStep = 2
    /\ pnHistory # <<>>
    /\ pnHistory[Len(pnHistory)].kind = "feedback"
    /\ pnFirst = [kind |-> "main", messages |-> Append(pnHistory, NewTask)]

\* C29 (as stated): a compaction, made when the estimate of the history
\* exceeds the threshold, leaves the first message, exactly one compacted
\* message from exactly one model call, and the last 4 messages.
C29_CompactionReplacesMiddle ==
    pnPc = "chat" /\ EstimateTokens(pnBefore) > CompactionThreshold
        => /\ pnTopCalls = 1
           /\ Len(pnMessages) = 6
           /\ pnMessages[1] = pnBefore[1]
           /\ pnMessages[2].kind = "compacted"
           /\ SubSeq(pnMessages, 3, 6) = SubSeq(pnBefore, Len(pnBefore) - 3, Len(pnBefore))

\* C29: a compaction of a history of more than 5 messages keeps the first
\* message and the last 4 unchanged and in order and puts exactly one
\* compacted message, from exactly one model call, in the place of all the
\* messages between them; a history of at most 5 messages is left as it is
\* and no model call is made, as is a history whose estimate does not exceed
\* the threshold.
C29_CompactionKeepsSystemAndTail ==
    pnPc = "chat" =>
        IF EstimateTokens(pnBefore) > CompactionThreshold /\ Len(pnBefore) > 5
        THEN /\ pnTopCalls = 1
             /\ Len(pnMessages) = 6
             /\ pnMessages[1] = pnBefore[1]
             /\ pnMessages[1].role = "system"
             /\ pnMessages[2] = RpMessage("user", "compacted", 20 + SummaryLen)
             /\ SubSeq(pnMessages, 3, 6) = SubSeq(pnBefore, Len(pnBefore) - 3, Len(pnBefore))
        ELSE pnTopCalls = 0 /\ pnMessages = pnBefore

\* A history of 8 messages, a compacted one among them, has been compacted.
C29_Witness ==
    /\ pnPc = "chat" /\ pnTopCalls = 1 /\ Len(pnBefore) = 8 /\ Len(pnMessages) = 6
    /\ pnBefore[2].kind = "compacted"

\* C39: at every model call of the REPL agent the history is the system
\* message followed by user and assistant messages in strict alternation,
\* beginning and ending with a user message, also after a compaction and in a
\* later run of a persistent agent.
C39_UserAssistantAlternate ==
    pnPc = "chat" =>
        /\ Len(pnMessages) >= 2
        /\ pnMessages[1].role = "system"
        /\ pnMessages[2].role = "user"
        /\ pnMessages[Len(pnMessages)].role = "user"
        /\ \A i \in 2..(Len(pnMessages) - 1) :
            /\ pnMessages[i].role \in {"user", "assistant"}
            /\ pnMessages[i + 1].role \in {"user", "assistant"}
            /\ pnMessages[i].role # pnMessages[i + 1].role

(***************************************************************************)
(* Agent tools: AgentHandler._execute_tool                                 *)
(***************************************************************************)

\* The names of AGENT_TOOLS that _execute_tool serves, and one it does not.
AgentToolNames == {"act", "set_breakpoint", "read_memory", "step",
                   "continue_execution", "evaluate", "done"}
CalledNames == AgentToolNames \cup {"no_such_tool"}

\* What the body of a tool's branch does: it returns, the LLDB command fails
\* (act only), or an exception is raised: RuntimeError by the bridge, KeyError
\* for a missing argument, ValueError for an address that is not a number,
\* AttributeError for arguments that are not a mapping.
ToolExceptions == {"RuntimeError", "KeyError", "ValueError", "AttributeError"}
BranchOutcomes == {"returns", "command fails"} \cup ToolExceptions

\* The outcomes a branch can have: done reads its arguments only, an unknown
\* name runs no branch, only act looks at result.succeeded.
OutcomesOf(name) ==
    CASE name = "no_such_tool" -> {"returns"}
      [] name = "done" -> {"returns", "AttributeError"}
      [] name = "act" -> {"returns", "command fails", "RuntimeError", "AttributeError"}
      [] name \in {"set_breakpoint", "read_memory"} -> {"returns"} \cup ToolExceptions
      [] name = "evaluate" -> {"returns", "KeyError", "AttributeError", "RuntimeError"}
      [] OTHER -> {"returns", "RuntimeError", "AttributeError"}

\* A tool executor without a handler.
ToolCatches_Nothing(outcome) == FALSE

\* handler.py:224: `except Exception as e`.
ToolCatches(outcome) == outcome \in ToolExceptions

\* AgentHandler._execute_tool: the string returned, or the exception raised.
ExecuteTool(name, outcome) ==
    IF outcome \in ToolExceptions
    THEN IF ToolCatches(outcome)
         THEN [raised |-> FALSE, text |-> "Error executing"]
         ELSE [raised |-> TRUE, text |-> outcome]
    ELSE IF name \notin AgentToolNames THEN [raised |-> FALSE, text |-> "Unknown tool"]
    ELSE IF name = "act" /\ outcome = "command fails"
         THEN [raised |-> FALSE, text |-> "Error: "]
    ELSE [raised |-> FALSE, text |-> "result"]

\* handler.py:102-105: the tool calls of one response, the results empty.
ToolsInit ==
    /\ txCalls \in UNION {[1..k -> CalledNames] : k \in 1..MaxToolCalls}
    /\ txIdx = 1
    /\ txResults = <<>>
    /\ txPc = "tools"

\* handler.py:105-107: the next tool call is executed and its result appended
\* to tool_results; an exception of _execute_tool leaves run_stream.
ToolsExecute ==
    /\ txPc = "tools" /\ txIdx <= Len(txCalls)
    /\ \E outcome \in OutcomesOf(txCalls[txIdx]) :
        LET r == ExecuteTool(txCalls[txIdx], outcome)
        IN  IF r.raised
            THEN /\ txPc' = "raised"
                 /\ UNCHANGED <<txIdx, txResults>>
            ELSE /\ txResults' = Append(txResults,
                        [name |-> txCalls[txIdx], outcome |-> outcome, text |-> r.text])
                 /\ txIdx' = txIdx + 1
                 /\ UNCHANGED txPc
    /\ UNCHANGED txCalls
    /\ UNCHANGED txOthers

\* handler.py:118-138: all tool calls are done: the results go to the history.
ToolsFinish ==
    /\ txPc = "tools" /\ txIdx > Len(txCalls)
    /\ txPc' = "appended"
    /\ UNCHANGED <<txCalls, txIdx, txResults>>
    /\ UNCHANGED txOthers

ToolsNext == ToolsExecute \/ ToolsFinish

ToolsIdle == txCalls = <<>> /\ txIdx = 1 /\ txResults = <<>> /\ txPc = "appended"

\* C32: executing a tool never raises into the loop over the tool calls: an
\* unknown name gives the "Unknown tool" string and an exception raised in a
\* tool's branch the "Error executing" string as the result of that call, and
\* the loop goes on to the next call: in the end every call has its result.
C32_ToolErrorsBecomeResults ==
    /\ txPc # "raised"
    /\ Len(txResults) = txIdx - 1
    /\ \A k \in 1..Len(txResults) :
        /\ txResults[k].name = txCalls[k]
        /\ txResults[k].outcome \in ToolExceptions <=> txResults[k].text = "Error executing"
        /\ txResults[k].outcome \notin ToolExceptions /\ txCalls[k] \notin AgentToolNames
              <=> txResults[k].text = "Unknown tool"
    /\ txPc = "appended" => Len(txResults) = Len(txCalls)

\* A response of two calls: the first raised in the bridge, the second, of an
\* unknown tool, was still executed.
C32_Witness ==
    /\ txPc = "appended" /\ Len(txResults) = 2
    /\ txResults[1].outcome = "RuntimeError" /\ txResults[1].text = "Error executing"
    /\ txResults[2].text = "Unknown tool"

(***************************************************************************)
(* Script engine on the bridge: inject_tools, refresh with a real Process  *)
(***************************************************************************)

\* Number of engine calls followed.
MaxEngineOps == 2

\* SBProcess.GetSelectedThread(): a valid thread, or an invalid SBThread when
\* the process has no selected thread.
SbThreads == {"T1", "invalid"}

\* process.py:89-93, Process.selected_thread: a Thread wrapper whatever
\* GetSelectedThread returned, never None.
ProcessSelectedThread(sb) == IF sb = "invalid" THEN "T0" ELSE sb

\* REPL_SCAFFOLD_NAMES (executor.py:47-50), restricted to Names.
REPL_SCAFFOLD_NAMES == {"DONE"}

\* executor.py:215: forbidden = RESERVED_NAMES | REPL_SCAFFOLD_NAMES.
Forbidden == RESERVED_NAMES \cup REPL_SCAFFOLD_NAMES

\* The tools maps passed to inject_tools: one or two names, in the order of
\* the dict, each with its value.
ToolMaps ==
    {<<[name |-> n, value |-> v]>> : n \in Names, v \in UserVals}
    \cup UNION {{<<[name |-> n, value |-> "u1"], [name |-> m, value |-> "u2"]>> :
                    m \in Names \ {n}} : n \in Names}

\* executor.py:217-231: the tools are taken one by one; a forbidden name
\* raises ValueError, the tools before it having been registered with
\* update_scaffold.
RECURSIVE InjectTools(_, _, _)
InjectTools(ns, sc, tools) ==
    IF tools = <<>> THEN [ns |-> ns, sc |-> sc, raised |-> FALSE]
    ELSE IF tools[1].name \in Forbidden THEN [ns |-> ns, sc |-> sc, raised |-> TRUE]
    ELSE InjectTools([ns EXCEPT ![tools[1].name] = tools[1].value],
                     [sc EXCEPT ![tools[1].name] = tools[1].value], Tail(tools))

\* executor.py:76-77 and 100-114: the executor is built on a bridge Process.
EngineInit ==
    /\ rfSel \in SbThreads
    /\ rfNamespace = BuildNamespace(ProcessSelectedThread(rfSel))
    /\ rfScaffold = InitScaffold(rfNamespace)
    /\ rfBefore = [ns |-> rfNamespace, sc |-> rfScaffold]
    /\ rfLast = [op |-> "init", status |-> "ok"]
    /\ rfCount = 0

\* executor.py:237-259 and 280-288: execute runs a fragment, which may rebind
\* a name and change the selected thread, then restores the scaffold and
\* refreshes thread and frame from the process.
EngineExecute ==
    /\ rfCount < MaxEngineOps
    /\ \E n \in Names, v \in FragmentVals, sb \in SbThreads, rf \in RefreshOutcomes :
        /\ rfSel' = sb
        /\ rfNamespace' = AfterFragment(FragmentEffect(rfNamespace, n, v), rfScaffold,
                                        ProcessSelectedThread(sb), rf, FALSE)
        /\ rfLast' = [op |-> "execute", status |-> rf]
    /\ rfBefore' = [ns |-> rfNamespace, sc |-> rfScaffold]
    /\ rfCount' = rfCount + 1
    /\ UNCHANGED rfScaffold
    /\ UNCHANGED rfOthers

\* executor.py:209-232: inject_tools(tools).
EngineInjectTools ==
    /\ rfCount < MaxEngineOps
    /\ \E tools \in ToolMaps :
        LET r == InjectTools(rfNamespace, rfScaffold, tools)
        IN  /\ rfNamespace' = r.ns
            /\ rfScaffold' = r.sc
            /\ rfLast' = [op |-> "inject_tools",
                          status |-> IF r.raised THEN "raised" ELSE "returned"]
    /\ rfBefore' = [ns |-> rfNamespace, sc |-> rfScaffold]
    /\ rfCount' = rfCount + 1
    /\ UNCHANGED rfSel
    /\ UNCHANGED rfOthers

EngineNext == EngineExecute \/ EngineInjectTools

EngineIdle ==
    /\ rfSel = "invalid" /\ rfNamespace = BuildNamespace("T0")
    /\ rfScaffold = InitScaffold(rfNamespace)
    /\ rfBefore = [ns |-> rfNamespace, sc |-> rfScaffold]
    /\ rfLast = [op |-> "init", status |-> "ok"] /\ rfCount = MaxEngineOps

\* C33: inject_tools never replaces an entry of the scaffold: a tool whose
\* name is reserved or is in the scaffold at the time of the call is rejected.
C33_InjectionKeepsScaffoldEntries ==
    rfLast.op = "inject_tools" =>
        \A n \in ScaffoldKeys(rfBefore.sc) : rfScaffold[n] = rfBefore.sc[n]

\* C34: when inject_tools rejects a map, the namespace and the scaffold are
\* as they were before the call.
C34_RejectedInjectionChangesNothing ==
    rfLast = [op |-> "inject_tools", status |-> "raised"] =>
        rfNamespace = rfBefore.ns /\ rfScaffold = rfBefore.sc

\* C35: after every execute returns, thread and frame in the namespace are the
\* process's selected thread and that thread's selected frame, and both are
\* None when the process has no selected thread.
C35_ThreadAndFrameAreCurrent ==
    rfLast.op = "execute" =>
        IF rfSel = "invalid"
        THEN rfNamespace["thread"] = "None" /\ rfNamespace["frame"] = "None"
        ELSE rfNamespace["thread"] = rfSel /\ rfNamespace["frame"] = SelectedFrame(rfSel)

(***************************************************************************)
(* Cache storage: FileStorage.get and FileStorage.set under the primitives *)
(***************************************************************************)

\* Number of cached primitive calls followed.
MaxStorageOps == 3

\* The file of a key: absent, a JSON entry written by set, a text that is not
\* JSON (a truncated write), bytes that are not UTF-8 text, or a file that
\* cannot be read (no permission, a directory).
FileStates == {"absent", "entry", "truncated", "binary", "unreadable"}

\* storage.py:26-29: what path.exists(), path.read_text() and json.loads do
\* with the file: the value is returned, or an exception is raised.
ReadOutcome(file) ==
    CASE file = "absent" -> "None"
      [] file = "entry" -> "value"
      [] file = "truncated" -> "JSONDecodeError"
      [] file = "binary" -> "UnicodeDecodeError"
      [] file = "unreadable" -> "OSError"

\* storage.py:30: `except (json.JSONDecodeError, OSError)`.
GetCatches(exc) == exc \in {"JSONDecodeError", "OSError"}

\* FileStorage.get: the value, None for a miss, or the exception that leaves it.
StorageGet(file) ==
    LET r == ReadOutcome(file)
    IN  IF r \in {"None", "value"} THEN r
        ELSE IF GetCatches(r) THEN "None" ELSE r

\* storage.py:37-41: how mkdir and write_text end.
WriteOutcomes == {"ok", "OSError"}

\* storage.py:40: `except OSError`.
SetCatches(exc) == exc = "OSError"

\* The primitives that read and write the cache.
CachedPrimitives == {"act", "extract", "observe"}

\* A primitive call not made yet.
NoStorageCall == [op |-> "none", file |-> "absent", status |-> "returned",
                  result |-> "none", write |-> "none"]

StorageInit ==
    /\ fsFile = "absent"
    /\ fsLast = NoStorageCall
    /\ fsCount = 0

\* The file is damaged or replaced from outside the program.
StorageDamage ==
    /\ fsCount < MaxStorageOps
    /\ fsFile' \in FileStates \ {fsFile, "entry"}
    /\ UNCHANGED <<fsLast, fsCount>>
    /\ UNCHANGED fsOthers

\* act.py:92-97 and 143-145, engine.py:80-85, 100-101, 113-118 and 141-142: a
\* primitive with a cache reads the entry of its key; a value is returned as
\* the result; on a miss the result is produced and written, a failed write
\* leaving the file as it was or truncated.
StoragePrimitive ==
    /\ fsCount < MaxStorageOps
    /\ \E op \in CachedPrimitives, w \in WriteOutcomes, partial \in BOOLEAN :
        LET got == StorageGet(fsFile)
        IN  IF got = "value"
            THEN /\ fsLast' = [op |-> op, file |-> fsFile, status |-> "returned",
                               result |-> "cached", write |-> "none"]
                 /\ UNCHANGED fsFile
            ELSE IF got # "None"
            THEN /\ fsLast' = [op |-> op, file |-> fsFile, status |-> got,
                               result |-> "none", write |-> "none"]
                 /\ UNCHANGED fsFile
            ELSE /\ fsLast' = [op |-> op, file |-> fsFile,
                               status |-> IF w = "ok" \/ SetCatches(w) THEN "returned" ELSE w,
                               result |-> IF w = "ok" \/ SetCatches(w) THEN "fresh" ELSE "none",
                               write |-> w]
                 /\ fsFile' = IF w = "ok" THEN "entry"
                              ELSE IF partial /\ fsFile # "unreadable" THEN "truncated"
                              ELSE fsFile
    /\ fsCount' = fsCount + 1
    /\ UNCHANGED fsOthers

StorageNext == StorageDamage \/ StoragePrimitive

StorageIdle == fsFile = "absent" /\ fsLast = NoStorageCall /\ fsCount = MaxStorageOps

\* C36: a primitive that finds a corrupt or unreadable entry for its key, or
\* whose cache write fails, returns, with the result it gives on a miss.
C36_CacheFailuresAreMisses ==
    fsLast.op # "none" /\ (fsLast.file \in {"truncated", "binary", "unreadable"}
                           \/ fsLast.write = "OSError")
        => fsLast.status = "returned" /\ fsLast.result = "fresh"

(***************************************************************************)
(* DONE inside a block: _done_fn, _DoneSignal and _execute_sync            *)
(***************************************************************************)

\* Largest depth of try statements around the block's DONE call.
MaxNest == 2

\* The try statements a block may put around its call: handlers for one
\* exception class, for Exception, for everything (bare except or
\* BaseException), or a finally clause.
HandlerKinds == {"except ValueError", "except Exception", "except BaseException", "finally"}

\* The texts a block passes to DONE.
DoneTexts == {"a", "b"}

\* repl.py:46-50: _DoneSignal derives from Exception, so a handler for
\* Exception or for everything catches it.
HandlerCatchesDone(kind) == kind \in {"except Exception", "except BaseException"}

\* A block is about to run: its try statements, innermost first, and the text.
DoneInit ==
    /\ dnNest \in UNION {[1..k -> HandlerKinds] : k \in 0..MaxNest}
    /\ dnText \in DoneTexts
    /\ dnPc = "running"
    /\ dnLevel = 0
    /\ dnCalled = FALSE
    /\ dnDone = FALSE
    /\ dnResult = ""

\* repl.py:106-108: the block calls DONE(text): _done_fn raises _DoneSignal.
DoneCall ==
    /\ dnPc = "running" /\ ~dnCalled
    /\ dnCalled' = TRUE
    /\ dnPc' = "raising"
    /\ dnLevel' = 1
    /\ UNCHANGED <<dnNest, dnText, dnDone, dnResult>>
    /\ UNCHANGED dnOthers

\* The signal goes up through the try statements of the block: a handler
\* that catches it lets the block run on; past the outermost one it reaches
\* `except _DoneSignal` of _execute_sync (repl.py:260-263).
DonePropagate ==
    /\ dnPc = "raising"
    /\ IF dnLevel > Len(dnNest)
       THEN /\ dnDone' = TRUE
            /\ dnResult' = dnText
            /\ dnPc' = "ended"
            /\ UNCHANGED dnLevel
       ELSE IF HandlerCatchesDone(dnNest[dnLevel])
       THEN /\ dnPc' = "running"
            /\ UNCHANGED <<dnLevel, dnDone, dnResult>>
       ELSE /\ dnLevel' = dnLevel + 1
            /\ UNCHANGED <<dnPc, dnDone, dnResult>>
    /\ UNCHANGED <<dnNest, dnText, dnCalled>>
    /\ UNCHANGED dnOthers

\* repl.py:257-277: the block ends without a signal, normally or by an
\* exception that _execute_sync writes to stderr.
DoneBlockEnds ==
    /\ dnPc = "running"
    /\ dnPc' \in {"ended", "failed"}
    /\ UNCHANGED <<dnNest, dnText, dnLevel, dnCalled, dnDone, dnResult>>
    /\ UNCHANGED dnOthers

DoneNext == DoneCall \/ DonePropagate \/ DoneBlockEnds

DoneIdle ==
    /\ dnNest = <<>> /\ dnText = "a" /\ dnPc = "ended" /\ dnLevel = 0
    /\ dnCalled = FALSE /\ dnDone = FALSE /\ dnResult = ""

\* C37: when a block that called DONE(text) has ended, the done flag is set
\* and the result is the text, wherever in the block the call was made.
C37_DoneCallSetsDone ==
    dnCalled /\ dnPc \in {"ended", "failed"} => dnDone /\ dnResult = dnText

(***************************************************************************)
(* Cache keys: ActHandler._cache_key and TranslateEngine._cache_key        *)
(***************************************************************************)

\* Longest instruction and context text of this part, in characters.
MaxKeyText == 2

\* Texts over a letter and the line break: instructions are free text and a
\* rendered context is several lines joined by line breaks (builder.py:153).
KeyChars == {"x", "\n"}
KeyTexts == UNION {[1..n -> KeyChars] : n \in 1..MaxKeyText}

\* The calls that use the cache: purpose, instruction, context text.
KeyRequests ==
    {[purpose |-> p, instruction |-> i, context |-> c] :
        p \in CachedPrimitives, i \in KeyTexts, c \in KeyTexts}

\* act.py:93, engine.py:81, engine.py:114: the text hashed for a call; the
\* digest is taken to be collision-free and is represented by the text.
KeyOf(r) ==
    CASE r.purpose = "act" -> ActCacheKey(r.instruction, r.context)
      [] r.purpose = "extract" -> ExtractKey(r.instruction, r.context, <<"M">>)
      [] OTHER -> ObserveKey(r.context, r.instruction)

NoKeyRequest == [purpose |-> "none", instruction |-> <<>>, context |-> <<>>]

KeysInit ==
    /\ kcPc = "empty"
    /\ kcStored = NoKeyRequest
    /\ kcKey = <<>>
    /\ kcLast = [hit |-> FALSE, request |-> NoKeyRequest]

\* act.py:92-97 and 130-133, engine.py:80-101 and 113-142: a call misses the
\* empty cache, produces its result and stores it under its key.
KeysStore ==
    /\ kcPc = "empty"
    /\ \E r \in KeyRequests :
        /\ kcStored' = r
        /\ kcKey' = KeyOf(r)
    /\ kcPc' = "stored"
    /\ UNCHANGED kcLast
    /\ UNCHANGED kcOthers

\* act.py:92-97, engine.py:80-85 and 113-118: a later call looks its key up
\* and returns the stored result when the key is there.
KeysLookup ==
    /\ kcPc = "stored"
    /\ \E r \in KeyRequests :
        kcLast' = [hit |-> KeyOf(r) = kcKey, request |-> r]
    /\ kcPc' = "looked"
    /\ UNCHANGED <<kcStored, kcKey>>
    /\ UNCHANGED kcOthers

KeysNext == KeysStore \/ KeysLookup

KeysIdle ==
    /\ kcPc = "looked"
    /\ kcStored = NoKeyRequest
    /\ kcKey = <<>>
    /\ kcLast = [hit |-> FALSE, request |-> NoKeyRequest]

\* C40: a call that hits the cache has the purpose, the instruction and the
\* context text of the call that stored the entry it is given.
C40_KeyDeterminesRequest ==
    kcPc = "looked" /\ kcLast.hit => kcLast.request = kcStored

(***************************************************************************)
(* Specifications                                                          *)
(***************************************************************************)

InitExecutor == ExecInit /\ AgentIdle /\ ActIdle /\ RpIdle /\ TranslateIdle /\ PruneIdle /\ SessionIdle /\ BreakpointIdle /\ InstrumentedIdle /\ VariablesIdle /\ PersistIdle /\ ToolsIdle /\ EngineIdle /\ StorageIdle /\ DoneIdle /\ KeysIdle
SpecExecutor == InitExecutor /\ [][ExecNext]_vars

InitAgent == AgentInit /\ ExecIdle /\ ActIdle /\ RpIdle /\ TranslateIdle /\ PruneIdle /\ SessionIdle /\ BreakpointIdle /\ InstrumentedIdle /\ VariablesIdle /\ PersistIdle /\ ToolsIdle /\ EngineIdle /\ StorageIdle /\ DoneIdle /\ KeysIdle
SpecAgent == InitAgent /\ [][AgentNext]_vars

InitAct == ActInit /\ ExecIdle /\ AgentIdle /\ RpIdle /\ TranslateIdle /\ PruneIdle /\ SessionIdle /\ BreakpointIdle /\ InstrumentedIdle /\ VariablesIdle /\ PersistIdle /\ ToolsIdle /\ EngineIdle /\ StorageIdle /\ DoneIdle /\ KeysIdle
SpecAct == InitAct /\ [][ActNext]_vars

\* Every step of act that is enabled is eventually taken: model calls and
\* script executions complete.
FairSpecAct == SpecAct /\ WF_vars(ActNext)

InitRepl == RpInit /\ ExecIdle /\ AgentIdle /\ ActIdle /\ TranslateIdle /\ PruneIdle /\ SessionIdle /\ BreakpointIdle /\ InstrumentedIdle /\ VariablesIdle /\ PersistIdle /\ ToolsIdle /\ EngineIdle /\ StorageIdle /\ DoneIdle /\ KeysIdle
SpecRepl == InitRepl /\ [][RpNext]_vars

\* The main model calls and the blocks complete, the loop runs what is
\* scheduled on it and the timer of future.result runs; nothing makes the chat
\* call of a sub-query complete.
FairSpecRepl == SpecRepl /\ WF_vars(RpProgress)

InitTranslate == TranslateInit /\ ExecIdle /\ AgentIdle /\ ActIdle /\ RpIdle /\ PruneIdle /\ SessionIdle /\ BreakpointIdle /\ InstrumentedIdle /\ VariablesIdle /\ PersistIdle /\ ToolsIdle /\ EngineIdle /\ StorageIdle /\ DoneIdle /\ KeysIdle
SpecTranslate == InitTranslate /\ [][TranslateNext]_vars

InitPrune == PruneInit /\ ExecIdle /\ AgentIdle /\ ActIdle /\ RpIdle /\ TranslateIdle /\ SessionIdle /\ BreakpointIdle /\ InstrumentedIdle /\ VariablesIdle /\ PersistIdle /\ ToolsIdle /\ EngineIdle /\ StorageIdle /\ DoneIdle /\ KeysIdle
SpecPrune == InitPrune /\ [][PruneNext]_vars

InitSession == SessionInit /\ ExecIdle /\ AgentIdle /\ ActIdle /\ RpIdle /\ TranslateIdle /\ PruneIdle /\ BreakpointIdle /\ InstrumentedIdle /\ VariablesIdle /\ PersistIdle /\ ToolsIdle /\ EngineIdle /\ StorageIdle /\ DoneIdle /\ KeysIdle
SpecSession == InitSession /\ [][SessionNext]_vars

InitBreakpoint == BreakpointInit /\ ExecIdle /\ AgentIdle /\ ActIdle /\ RpIdle /\ TranslateIdle /\ PruneIdle /\ SessionIdle /\ InstrumentedIdle /\ VariablesIdle /\ PersistIdle /\ ToolsIdle /\ EngineIdle /\ StorageIdle /\ DoneIdle /\ KeysIdle
SpecBreakpoint == InitBreakpoint /\ [][BreakpointNext]_vars

InitInstrumented == InstrumentedInit /\ ExecIdle /\ AgentIdle /\ ActIdle /\ RpIdle /\ TranslateIdle /\ PruneIdle /\ SessionIdle /\ BreakpointIdle /\ VariablesIdle /\ PersistIdle /\ ToolsIdle /\ EngineIdle /\ StorageIdle /\ DoneIdle /\ KeysIdle
SpecInstrumented == InitInstrumented /\ [][InstrumentedNext]_vars

InitVariables == VariablesInit /\ ExecIdle /\ AgentIdle /\ ActIdle /\ RpIdle /\ TranslateIdle /\ PruneIdle /\ SessionIdle /\ BreakpointIdle /\ InstrumentedIdle /\ PersistIdle /\ ToolsIdle /\ EngineIdle /\ StorageIdle /\ DoneIdle /\ KeysIdle
SpecVariables == InitVariables /\ [][VariablesNext]_vars

\* Every call of the conversion goes on: LLDB answers.
FairSpecVariables == SpecVariables /\ WF_vars(VariablesNext)

InitPersist == PersistInit /\ ExecIdle /\ AgentIdle /\ ActIdle /\ RpIdle /\ TranslateIdle /\ PruneIdle /\ SessionIdle /\ BreakpointIdle /\ InstrumentedIdle /\ VariablesIdle /\ ToolsIdle /\ EngineIdle /\ StorageIdle /\ DoneIdle /\ KeysIdle
SpecPersist == InitPersist /\ [][PersistNext]_vars

InitTools == ToolsInit /\ ExecIdle /\ AgentIdle /\ ActIdle /\ RpIdle /\ TranslateIdle /\ PruneIdle /\ SessionIdle /\ BreakpointIdle /\ InstrumentedIdle /\ VariablesIdle /\ PersistIdle /\ EngineIdle /\ StorageIdle /\ DoneIdle /\ KeysIdle
SpecTools == InitTools /\ [][ToolsNext]_vars

InitEngine == EngineInit /\ ExecIdle /\ AgentIdle /\ ActIdle /\ RpIdle /\ TranslateIdle /\ PruneIdle /\ SessionIdle /\ BreakpointIdle /\ InstrumentedIdle /\ VariablesIdle /\ PersistIdle /\ ToolsIdle /\ StorageIdle /\ DoneIdle /\ KeysIdle
SpecEngine == InitEngine /\ [][EngineNext]_vars

InitStorage == StorageInit /\ ExecIdle /\ AgentIdle /\ ActIdle /\ RpIdle /\ TranslateIdle /\ PruneIdle /\ SessionIdle /\ BreakpointIdle /\ InstrumentedIdle /\ VariablesIdle /\ PersistIdle /\ ToolsIdle /\ EngineIdle /\ DoneIdle /\ KeysIdle
SpecStorage == InitStorage /\ [][StorageNext]_vars

InitDone == DoneInit /\ ExecIdle /\ AgentIdle /\ ActIdle /\ RpIdle /\ TranslateIdle /\ PruneIdle /\ SessionIdle /\ BreakpointIdle /\ InstrumentedIdle /\ VariablesIdle /\ PersistIdle /\ ToolsIdle /\ EngineIdle /\ StorageIdle /\ KeysIdle
SpecDone == InitDone /\ [][DoneNext]_vars

InitKeys == KeysInit /\ ExecIdle /\ AgentIdle /\ ActIdle /\ RpIdle /\ TranslateIdle /\ PruneIdle /\ SessionIdle /\ BreakpointIdle /\ InstrumentedIdle /\ VariablesIdle /\ PersistIdle /\ ToolsIdle /\ EngineIdle /\ StorageIdle /\ DoneIdle
SpecKeys == InitKeys /\ [][KeysNext]_vars

====
